---------------------------- MODULE Spec2Model ----------------------------
(***************************************************************************)
(* A model of the lease-population backend of xlToPptx: the placeholder    *)
(* substitution engine (src/app.py, src/lease_population/core.py), the     *)
(* conditional section remover (src/app.py) and the request handlers that  *)
(* drive them.                                                             *)
(*                                                                         *)
(* A text is a sequence of characters; a character is a one-letter string. *)
(* In the section-marker vocabulary a fixed phrase of the template (such   *)
(* as "Acknowledgment Block for Individual") is one symbol of the          *)
(* alphabet, which no operation of the program splits.                     *)
(***************************************************************************)
EXTENDS Integers, Sequences, FiniteSets, TLC

VARIABLES
    pc,            \* position of the running operation
    path,          \* the function or handler that serves the call
    mapping_raw,   \* the submitted mapping list: a sequence of [key, value]
    mapping,       \* the dict built from it: [key, value] items in insertion order
    track_changes, \* the track_changes flag of the request
    party_type,    \* the party_type / grantee_type argument
    docx_file,     \* the uploaded template, as it is on arrival
    image_files,   \* the uploaded image files: [key, image_data] items; the one
                   \* [placeholder, image_data] an embedder is called with
    call,          \* the arguments of a direct call of the block generator,
                   \* NoCall otherwise
    disk,          \* the template files present under templates/
    template_text, \* what the template files read by the enhanced block
                   \* generator hold: [signature, notary], NoText otherwise
    uploads,       \* the files in app.config['UPLOAD_FOLDER']
    tokens,        \* the file tokens uuid4 has drawn, and those a response
                   \* has handed to the client
    doc,           \* the in-memory document, NoDoc before Document(docx_file)
    response,      \* the response of the request, NoResponse while it runs; the
                   \* value returned, for an embedder called on its own
    exc,           \* the exception raised and not yet handled, NoExc if none
    pairs,         \* the marker pairs find_section_indices has still to resolve
    scan_i,        \* i of the loop of find_section_indices (0-based)
    start,         \* start of find_section_indices, None while searching it
    start_idx,     \* start_idx of find_section_indices
    indices,       \* indices of find_section_indices: the (start, end) found
    to_remove      \* to_remove of remove_acknowledgment_blocks_enforced

scanVars == <<pairs, scan_i, start, start_idx, indices, to_remove>>
reqVars == <<path, mapping_raw, track_changes, party_type, docx_file, image_files,
            call, disk, template_text, uploads, tokens>>

vars == <<pc, path, mapping_raw, mapping, track_changes, party_type,
          docx_file, image_files, call, disk, template_text, uploads, tokens,
          doc, response, exc, pairs, scan_i, start, start_idx, indices,
          to_remove>>

(***************************************************************************)
(* The template files of the block generator: templates/sigBlocks/*.txt    *)
(* read by getSigBlock, templates/Notorary/notrary.txt read by             *)
(* notrary_generator, templates/blocks/*.txt read by load_block_template.  *)
(***************************************************************************)
TemplateFiles == {"I1.txt", "SI1.txt", "E1.txt", "notrary.txt",
                  "individual_signature.txt", "entity_signature.txt"}
NoCall == [ownerType |-> <<>>, is_notary |-> FALSE, num_signatures |-> 0]
NoText == [signature |-> <<>>, notary |-> <<>>]
NoTokens == [issued |-> 0, known |-> {}]

(***************************************************************************)
(* Bounds of the model.                                                    *)
(***************************************************************************)
MaxRuns == 2
MaxEntries == 2

NoDoc == [none |-> TRUE]
NoResponse == [status |-> 0, kind |-> "none"]
NoExc == [type |-> "none", marker |-> <<>>, label |-> ""]
None == -1

\* no call of find_section_indices is under way
ScanIdle ==
    /\ pairs = <<>>
    /\ scan_i = 0
    /\ start = None
    /\ start_idx = None
    /\ indices = <<>>
    /\ to_remove = <<>>

(***************************************************************************)
(* Python string operations on texts.                                      *)
(***************************************************************************)
Min(a, b) == IF a < b THEN a ELSE b
Max(a, b) == IF a > b THEN a ELSE b

\* s[a:b] of Python, 0-based, clamped to the text
Slice(s, a, b) == SubSeq(s, a + 1, Min(b, Len(s)))

\* s[i:].startswith(t), i 1-based
MatchAt(s, t, i) == /\ i + Len(t) - 1 <= Len(s)
                    /\ \A k \in 1..Len(t) : s[i + k - 1] = t[k]

\* t in s
Contains(s, t) == \E i \in 1..(Len(s) + 1) : MatchAt(s, t, i)

Whitespace == {" "}

RECURSIVE LStrip(_)
LStrip(s) == IF s # <<>> /\ Head(s) \in Whitespace THEN LStrip(Tail(s)) ELSE s

RECURSIVE RStrip(_)
RStrip(s) == IF s # <<>> /\ s[Len(s)] \in Whitespace
             THEN RStrip(SubSeq(s, 1, Len(s) - 1)) ELSE s

\* s.strip()
Strip(s) == RStrip(LStrip(s))

RECURSIVE ReplaceFrom(_, _, _, _)
ReplaceFrom(s, old, new, i) ==
    IF i > Len(s) THEN <<>>
    ELSE IF MatchAt(s, old, i)
         THEN new \o ReplaceFrom(s, old, new, i + Len(old))
         ELSE <<s[i]>> \o ReplaceFrom(s, old, new, i + 1)

RECURSIVE Interleave(_, _)
Interleave(s, new) ==
    IF s = <<>> THEN new ELSE new \o <<Head(s)>> \o Interleave(Tail(s), new)

\* s.replace(old, new): leftmost non-overlapping occurrences; an empty old
\* matches before every character and at the end
Replace(s, old, new) ==
    IF old = <<>> THEN Interleave(s, new) ELSE ReplaceFrom(s, old, new, 1)

RECURSIVE Concat(_)
Concat(ss) == IF ss = <<>> THEN <<>> ELSE Head(ss) \o Concat(Tail(ss))

\* normalize_placeholder_key returns the one variant [key.strip()]
normalize_placeholder_key(key) == <<Strip(key)>>

strip_brackets(placeholder) ==
    LET s == Strip(placeholder)
    IN  IF Len(s) >= 1 /\ s[1] = "[" /\ s[Len(s)] = "]"
        THEN Strip(SubSeq(s, 2, Len(s) - 1))
        ELSE s

(***************************************************************************)
(* Documents.  A run is [text, font, highlight]; a paragraph is a sequence *)
(* of runs; a block (body, cell, header, footer) has paragraphs and        *)
(* tables; a table is a sequence of rows of cells, each cell a block.      *)
(***************************************************************************)
Plain == [name |-> "Arial", size |-> 11, bold |-> FALSE, italic |-> FALSE]
Bold  == [name |-> "Times", size |-> 12, bold |-> TRUE, italic |-> FALSE]

Run(t, f) == [text |-> t, font |-> f, highlight |-> FALSE]
Block(ps, ts) == [paragraphs |-> ps, tables |-> ts]
Table1x1(cell) == <<<<cell>>>>

RunTexts(runs) == [i \in DOMAIN runs |-> runs[i].text]
\* ''.join(run.text for run in runs), also paragraph.text
ParagraphText(runs) == Concat(RunTexts(runs))

Item(k, v) == [key |-> k, value |-> v]

(***************************************************************************)
(* replace_placeholders_in_docx of app.py.                                 *)
(***************************************************************************)
\* one iteration of "for key, value in mapping.items()" in replace_in_runs
ReplaceEntry(full_text, key, value) ==
    IF Strip(value) = <<>> THEN full_text
    ELSE LET variant == normalize_placeholder_key(key)[1]
             replaced == Replace(full_text, variant, value)
             bracketless == strip_brackets(variant)
         IN  IF bracketless # variant
             THEN Replace(replaced, bracketless, value)
             ELSE replaced

RECURSIVE ReplaceAll(_, _)
ReplaceAll(full_text, items) ==
    IF items = <<>> THEN full_text
    ELSE ReplaceAll(ReplaceEntry(full_text, Head(items).key, Head(items).value),
                    Tail(items))

RECURSIVE RunOffset(_, _)
\* idx when the re-split loop reaches run i: the lengths of the runs before it
RunOffset(runs, i) ==
    IF i = 1 THEN 0 ELSE RunOffset(runs, i - 1) + Len(runs[i - 1].text)

\* a re-split loop that reads the formatting of the last run
ResplitFontLastRun(runs, i) == runs[Len(runs)].font

\* the font a run carries after the re-split loop of app.py
ResplitFont(runs, i) == runs[1].font

\* the text run i receives in the re-split loop of app.py
ResplitText(runs, full_text, i) ==
    Slice(full_text, RunOffset(runs, i), RunOffset(runs, i) + Len(runs[i].text))

replace_in_runs(runs, m) ==
    LET full_text == ReplaceAll(ParagraphText(runs), m)
    IN  [i \in DOMAIN runs |->
            [runs[i] EXCEPT !.text = ResplitText(runs, full_text, i),
                            !.font = ResplitFont(runs, i)]]

\* the any(...) test of process_paragraph: some key with a non-blank value
\* occurs verbatim in the joined text
KeyOccurs(joined, m) ==
    \E i \in DOMAIN m :
        /\ Strip(m[i].value) # <<>>
        /\ Contains(joined, normalize_placeholder_key(m[i].key)[1])

process_paragraph(paragraph, m) ==
    IF paragraph = <<>> THEN paragraph
    ELSE IF KeyOccurs(ParagraphText(paragraph), m)
         THEN replace_in_runs(paragraph, m)
         ELSE paragraph

RECURSIVE process_block(_, _)
RECURSIVE process_table(_, _)
process_table(table, m) ==
    [r \in DOMAIN table |->
        [c \in DOMAIN table[r] |-> process_block(table[r][c], m)]]

process_block(block, m) ==
    [paragraphs |-> [i \in DOMAIN block.paragraphs |->
                        process_paragraph(block.paragraphs[i], m)],
     tables |-> [t \in DOMAIN block.tables |-> process_table(block.tables[t], m)]]

replace_placeholders_in_docx(d, m) ==
    [body |-> process_block(d.body, m),
     sections |-> [s \in DOMAIN d.sections |->
                      [header |-> process_block(d.sections[s].header, m),
                       footer |-> process_block(d.sections[s].footer, m)]]]

(***************************************************************************)
(* replace_placeholders_in_docx_with_track_changes of app.py.              *)
(***************************************************************************)
Highlighted(run, t) == [run EXCEPT !.text = t, !.highlight = TRUE]

RECURSIVE tc_process_run(_, _)
\* the "for key, value in mapping.items()" loop over one run: the first key
\* that matches, verbatim or without its brackets, is replaced and the loop ends
tc_process_run(run, items) ==
    IF items = <<>> THEN run
    ELSE LET key == Head(items).key
             value == Head(items).value
             variant == normalize_placeholder_key(key)[1]
             bracketless == strip_brackets(variant)
         IN  IF Strip(value) = <<>> THEN tc_process_run(run, Tail(items))
             ELSE IF Contains(run.text, variant)
                  THEN Highlighted(run, Replace(run.text, variant, value))
             ELSE IF bracketless # variant /\ Contains(run.text, bracketless)
                  THEN Highlighted(run, Replace(run.text, bracketless, value))
             ELSE tc_process_run(run, Tail(items))

tc_process_paragraph(paragraph, m) ==
    [i \in DOMAIN paragraph |-> tc_process_run(paragraph[i], m)]

\* process_table of the track-changes walk visits cell.paragraphs only
tc_process_cell(cell, m) ==
    [cell EXCEPT !.paragraphs =
        [i \in DOMAIN cell.paragraphs |-> tc_process_paragraph(cell.paragraphs[i], m)]]

tc_process_table(table, m) ==
    [r \in DOMAIN table |->
        [c \in DOMAIN table[r] |-> tc_process_cell(table[r][c], m)]]

replace_placeholders_in_docx_with_track_changes(d, m) ==
    [body |-> [paragraphs |-> [i \in DOMAIN d.body.paragraphs |->
                                  tc_process_paragraph(d.body.paragraphs[i], m)],
               tables |-> [t \in DOMAIN d.body.tables |->
                              tc_process_table(d.body.tables[t], m)]],
     sections |-> [s \in DOMAIN d.sections |->
                      [header |-> tc_process_cell(d.sections[s].header, m),
                       footer |-> tc_process_cell(d.sections[s].footer, m)]]]

(***************************************************************************)
(* LeasePopulationProcessor._replace_placeholders_in_docx and              *)
(* _replace_placeholders_with_track_changes of core.py.                    *)
(***************************************************************************)
core_replace_in_runs(runs, m) ==
    LET full_text == ReplaceAll(ParagraphText(runs), m)
    IN  [i \in DOMAIN runs |->
            [runs[i] EXCEPT !.text = IF i = 1 THEN full_text ELSE <<>>]]

core_process_paragraph(paragraph, m) ==
    IF paragraph = <<>> THEN paragraph
    ELSE IF KeyOccurs(ParagraphText(paragraph), m)
         THEN core_replace_in_runs(paragraph, m)
         ELSE paragraph

RECURSIVE core_process_block(_, _)
RECURSIVE core_process_table(_, _)
core_process_table(table, m) ==
    [r \in DOMAIN table |->
        [c \in DOMAIN table[r] |-> core_process_block(table[r][c], m)]]

core_process_block(block, m) ==
    [paragraphs |-> [i \in DOMAIN block.paragraphs |->
                        core_process_paragraph(block.paragraphs[i], m)],
     tables |-> [t \in DOMAIN block.tables |->
                    core_process_table(block.tables[t], m)]]

\* python-docx exposes no doc.part.footnotes, so the footnote loop is skipped
_replace_placeholders_in_docx(d, m) ==
    [body |-> core_process_block(d.body, m),
     sections |-> [s \in DOMAIN d.sections |->
                      [header |-> core_process_block(d.sections[s].header, m),
                       footer |-> core_process_block(d.sections[s].footer, m)]]]

RECURSIVE coretc_process_run(_, _)
coretc_process_run(run, items) ==
    IF items = <<>> THEN run
    ELSE LET value == Head(items).value
             variant == normalize_placeholder_key(Head(items).key)[1]
         IN  IF Strip(value) = <<>> THEN coretc_process_run(run, Tail(items))
             ELSE IF Contains(run.text, variant)
                  THEN Highlighted(run, Replace(run.text, variant, value))
             ELSE coretc_process_run(run, Tail(items))

coretc_process_paragraph(paragraph, m) ==
    [i \in DOMAIN paragraph |-> coretc_process_run(paragraph[i], m)]

RECURSIVE coretc_process_block(_, _)
RECURSIVE coretc_process_table(_, _)
coretc_process_table(table, m) ==
    [r \in DOMAIN table |->
        [c \in DOMAIN table[r] |-> coretc_process_block(table[r][c], m)]]

coretc_process_block(block, m) ==
    [paragraphs |-> [i \in DOMAIN block.paragraphs |->
                        coretc_process_paragraph(block.paragraphs[i], m)],
     tables |-> [t \in DOMAIN block.tables |->
                    coretc_process_table(block.tables[t], m)]]

_replace_placeholders_with_track_changes(d, m) ==
    [body |-> coretc_process_block(d.body, m),
     sections |-> [s \in DOMAIN d.sections |->
                      [header |-> coretc_process_block(d.sections[s].header, m),
                       footer |-> coretc_process_block(d.sections[s].footer, m)]]]

(***************************************************************************)
(* The inputs the substitution functions are exercised on.                 *)
(***************************************************************************)
KeyN  == <<"[", "N", "]">>
KeyS  == <<"[", "S", "]">>
KeyGN == <<"[", "G", "N", "]">>
Keys  == {KeyN, KeyS, KeyGN}

ValuesFor(k) ==
    IF k = KeyN THEN {<<"x">>, <<"x", "y", "z", "w", "v">>}
    ELSE IF k = KeyS THEN {<<>>, <<"y">>}
    ELSE {<<" ">>, <<"z">>}

Texts ==
    { <<"[", "N", "]">>,                                \* the key alone
      <<"[", "N", "s", "]">>,                           \* a superstring token
      <<"[", "n", "]">>,                                \* a case variant
      <<"a", "N">>,                                     \* the key's word, no brackets
      <<"[", "N", "]", "[", "N", "s", "]">>,            \* key and superstring
      <<"[", "N", "]", "[", "n", "]", "N">>,            \* key, case variant, word
      <<"[", "N", "]", " ", "[", "S", "]">>,            \* two keys
      <<"[", "G", "N", "]", "[", "N", "]">>,            \* a key inside another
      <<"a", "b", "c">> }                               \* no key at all

RECURSIVE SortedSeq(_)
SortedSeq(S) ==
    IF S = {} THEN <<>>
    ELSE LET m == CHOOSE x \in S : \A y \in S : x <= y
         IN  <<m>> \o SortedSeq(S \ {m})

\* the runs of text t cut after the positions of cuts; run b, if any, is bold
RunsOf(t, cuts, b) ==
    LET c == SortedSeq(cuts)
        n == Len(c) + 1
        lo(i) == IF i = 1 THEN 1 ELSE c[i - 1] + 1
        hi(i) == IF i = n THEN Len(t) ELSE c[i]
    IN  [i \in 1..n |-> Run(SubSeq(t, lo(i), hi(i)), IF i = b THEN Bold ELSE Plain)]

ParaPool ==
    { RunsOf(t, cuts, b) :
        <<t, cuts, b>> \in
            { x \in Texts \X (SUBSET (1..6)) \X (0..(MaxRuns + 1)) :
                /\ x[2] \subseteq 1..(Len(x[1]) - 1)
                /\ Cardinality(x[2]) < MaxRuns
                /\ x[3] <= Cardinality(x[2]) + 1 } }

EmptyBlock == Block(<<>>, <<>>)
OneSection(h, f) == <<[header |-> h, footer |-> f]>>
Locations == {"body", "table", "nested", "header", "header_table",
              "footer", "footer_table"}

\* a document whose one paragraph p sits at location loc of the content tree
DocAt(loc, p) ==
    LET leaf == Block(<<p>>, <<>>)
        intable == Block(<<>>, <<Table1x1(leaf)>>)
    IN  CASE loc = "body"   -> [body |-> leaf, sections |-> OneSection(EmptyBlock, EmptyBlock)]
          [] loc = "table"  -> [body |-> intable,
                                sections |-> OneSection(EmptyBlock, EmptyBlock)]
          [] loc = "nested" -> [body |-> Block(<<>>, <<Table1x1(intable)>>),
                                sections |-> OneSection(EmptyBlock, EmptyBlock)]
          [] loc = "header" -> [body |-> EmptyBlock, sections |-> OneSection(leaf, EmptyBlock)]
          [] loc = "header_table" ->
                [body |-> EmptyBlock, sections |-> OneSection(intable, EmptyBlock)]
          [] loc = "footer" -> [body |-> EmptyBlock, sections |-> OneSection(EmptyBlock, leaf)]
          [] OTHER ->
                [body |-> EmptyBlock, sections |-> OneSection(EmptyBlock, intable)]

SubstDocs ==
    { DocAt("body", p) : p \in ParaPool } \cup
    { DocAt(loc, <<Run(t, Plain)>>) : <<loc, t>> \in Locations \X Texts }

\* the dicts of at most MaxEntries items: distinct keys, in every order
RECURSIVE MappingsOfLen(_)
MappingsOfLen(n) ==
    IF n = 0 THEN {<<>>}
    ELSE { Append(m, Item(k, v)) :
            <<m, k, v>> \in
                { x \in MappingsOfLen(n - 1) \X Keys \X UNION {ValuesFor(k) : k \in Keys} :
                    /\ x[3] \in ValuesFor(x[2])
                    /\ \A i \in DOMAIN x[1] : x[1][i].key # x[2] } }

SubstMappings == UNION { MappingsOfLen(n) : n \in 1..MaxEntries }

(***************************************************************************)
(* SpecSubst: each of the four substitution functions called on a loaded   *)
(* document with a dict.                                                   *)
(***************************************************************************)
InitSubst ==
    /\ pc = "loaded"
    /\ path \in {"app", "core"}
    /\ track_changes \in BOOLEAN
    /\ mapping_raw = <<>>
    /\ mapping \in SubstMappings
    /\ party_type = <<>>
    /\ docx_file \in SubstDocs
    /\ image_files = <<>>
    /\ call = NoCall
    /\ disk = TemplateFiles
    /\ template_text = NoText
    /\ uploads = {}
    /\ tokens = NoTokens
    /\ doc = docx_file
    /\ response = NoResponse
    /\ exc = NoExc
    /\ ScanIdle

Substituted(d) ==
    /\ pc' = "substituted"
    /\ doc' = d
    /\ UNCHANGED <<reqVars, mapping, response, exc, scanVars>>

AppReplace ==
    /\ pc = "loaded" /\ path = "app" /\ ~track_changes
    /\ Substituted(replace_placeholders_in_docx(doc, mapping))

AppReplaceTrack ==
    /\ pc = "loaded" /\ path = "app" /\ track_changes
    /\ Substituted(replace_placeholders_in_docx_with_track_changes(doc, mapping))

CoreReplace ==
    /\ pc = "loaded" /\ path = "core" /\ ~track_changes
    /\ Substituted(_replace_placeholders_in_docx(doc, mapping))

CoreReplaceTrack ==
    /\ pc = "loaded" /\ path = "core" /\ track_changes
    /\ Substituted(_replace_placeholders_with_track_changes(doc, mapping))

NextSubst == AppReplace \/ AppReplaceTrack \/ CoreReplace \/ CoreReplaceTrack

SpecSubst == InitSubst /\ [][NextSubst]_vars

(***************************************************************************)
(* Vocabulary of the properties of substitution.                           *)
(***************************************************************************)
RECURSIVE BlockParagraphs(_)
\* the paragraphs of a block and of every table beneath it, in document order
BlockParagraphs(block) ==
    block.paragraphs \o
    Concat([t \in DOMAIN block.tables |->
        Concat([r \in DOMAIN block.tables[t] |->
            Concat([c \in DOMAIN block.tables[t][r] |->
                BlockParagraphs(block.tables[t][r][c])])])])

DocParagraphs(d) ==
    BlockParagraphs(d.body) \o
    Concat([s \in DOMAIN d.sections |->
        BlockParagraphs(d.sections[s].header) \o BlockParagraphs(d.sections[s].footer)])

Before == DocParagraphs(docx_file)
After  == DocParagraphs(doc)

NonBlank(m) == { i \in DOMAIN m : Strip(m[i].value) # <<>> }

IsPrefix(a, b) == Len(a) <= Len(b) /\ SubSeq(b, 1, Len(a)) = a

RECURSIVE ExactVariants(_, _, _)
\* the texts obtained from s[i..] by replacing some exact occurrences of keys
\* that have a non-blank value by that value, and nothing else
ExactVariants(s, m, i) ==
    IF i > Len(s) THEN {<<>>}
    ELSE { <<s[i]>> \o r : r \in ExactVariants(s, m, i + 1) } \cup
         UNION { { m[j].value \o r : r \in ExactVariants(s, m, i + Len(m[j].key)) } :
                    j \in { j \in NonBlank(m) : MatchAt(s, m[j].key, i) } }

RECURSIVE CountFrom(_, _, _)
CountFrom(s, t, i) ==
    IF i > Len(s) THEN 0
    ELSE IF MatchAt(s, t, i) THEN 1 + CountFrom(s, t, i + Len(t))
    ELSE CountFrom(s, t, i + 1)

\* s.count(t) for a non-empty t
Count(s, t) == CountFrom(s, t, 1)

RECURSIVE ExactReplaceAll(_, _)
\* the text with every key that has a non-blank value replaced by its value
ExactReplaceAll(s, items) ==
    IF items = <<>> THEN s
    ELSE ExactReplaceAll(
            IF Strip(Head(items).value) = <<>> THEN s
            ELSE Replace(s, Head(items).key, Head(items).value),
            Tail(items))

Orderings(m) ==
    { [i \in DOMAIN m |-> m[p[i]]] :
        p \in { q \in [DOMAIN m -> DOMAIN m] :
                    \A a, b \in DOMAIN m : a # b => q[a] # q[b] } }

\* the substitution function the call runs
SubstFn(d, m) ==
    IF path = "app"
    THEN IF track_changes THEN replace_placeholders_in_docx_with_track_changes(d, m)
         ELSE replace_placeholders_in_docx(d, m)
    ELSE IF track_changes THEN _replace_placeholders_with_track_changes(d, m)
         ELSE _replace_placeholders_in_docx(d, m)

(***************************************************************************)
(* C2.  Substitution is exact-match only: in every paragraph, what differs *)
(* after substitution is exact, case-sensitive occurrences of mapped keys, *)
(* brackets included, replaced by their values; a superstring token, a     *)
(* case variant or the key's word without brackets stays as it was.  Read  *)
(* up to the re-split: the text after is an initial part of a text made    *)
(* from the original by exact replacements alone.                          *)
(***************************************************************************)
C2_ExactMatchOnly ==
    pc = "substituted" =>
        \A i \in DOMAIN Before :
            \E x \in ExactVariants(ParagraphText(Before[i]), mapping, 1) :
                IsPrefix(ParagraphText(After[i]), x)

(***************************************************************************)
(* C3.  Empty-value skip: for every entry whose value is empty or          *)
(* whitespace-only, every occurrence of the entry's placeholder token in   *)
(* the document is still there after substitution, whatever the other      *)
(* entries are, in normal and in track-changes mode.                       *)
(***************************************************************************)
C3_EmptyValueSkip ==
    pc = "substituted" =>
        \A i \in DOMAIN Before : \A j \in DOMAIN mapping :
            Strip(mapping[j].value) = <<>> =>
                Count(ParagraphText(After[i]), mapping[j].key)
                    >= Count(ParagraphText(Before[i]), mapping[j].key)

(***************************************************************************)
(* C4.  Substitution loses no text: in normal mode, for every paragraph in *)
(* which a mapped key occurs, the concatenation of the run texts after     *)
(* substitution is the original text with every mapped key replaced by its *)
(* value.                                                                  *)
(***************************************************************************)
C4_NoTextLost ==
    (pc = "substituted" /\ ~track_changes) =>
        \A i \in DOMAIN Before :
            KeyOccurs(ParagraphText(Before[i]), mapping) =>
                ParagraphText(After[i]) =
                    ExactReplaceAll(ParagraphText(Before[i]), mapping)

(***************************************************************************)
(* C6.  No-op substitution changes nothing: a paragraph in whose text no   *)
(* mapped key with a non-empty value occurs has, after substitution in     *)
(* normal or track-changes mode, the same runs, texts and formatting.      *)
(***************************************************************************)
C6_NoOpUnchanged ==
    pc = "substituted" =>
        \A i \in DOMAIN Before :
            ~KeyOccurs(ParagraphText(Before[i]), mapping) => After[i] = Before[i]

(***************************************************************************)
(* C7.  Substitution is order-insensitive: in normal mode the substituted  *)
(* document is the same for every ordering of the entries of a mapping     *)
(* with unique keys, also when one key's text is contained in another's.   *)
(***************************************************************************)
C7_OrderInsensitive ==
    (pc = "substituted" /\ ~track_changes) =>
        \A m \in Orderings(mapping) : SubstFn(docx_file, m) = doc

(***************************************************************************)
(* C8.  Substitution reaches the whole content tree: wherever a run of a   *)
(* paragraph (body, table cell at any depth, header, footer, tables in     *)
(* them) holds a mapped placeholder with a non-empty value, substitution   *)
(* in normal or track-changes mode has rewritten that paragraph.           *)
(***************************************************************************)
C8_WholeTreeReached ==
    pc = "substituted" =>
        \A i \in DOMAIN Before :
            (\E r \in DOMAIN Before[i] :
                \E j \in NonBlank(mapping) : Contains(Before[i][r].text, mapping[j].key))
            => After[i] # Before[i]

LowerChar(c) ==
    CASE c = "Trust/Entity Name" -> "trust/entity name"
      [] c = "My Commission Expires:___" -> "my commission expires:___"
      [] c = "Acknowledgment Block for Entity or Trust" ->
            "acknowledgment block for entity or trust"
      [] c = "Acknowledgment Block for Individual" ->
            "acknowledgment block for individual"
      [] c = "(Signature of Notary Public)" -> "(signature of notary public)"
      [] c = "GRANTOR:" -> "grantor:"
      [] c = "Name:" -> "name:"
      [] c = "By:" -> "by:"
      [] c = "Individual" -> "individual"
      [] c = "INDIVIDUAL" -> "individual"
      [] c = "Entity or Trust" -> "entity or trust"
      [] c = "N" -> "n"
      [] c = "S" -> "s"
      [] c = "G" -> "g"
      [] OTHER -> c

\* s.lower()
Lower(s) == [k \in DOMAIN s |-> LowerChar(s[k])]

MarkerPair(s, e, l) == [start_marker |-> s, end_marker |-> e, section_label |-> l]

EntityPairs ==
    << MarkerPair(<<"[", "trust/entity name", "]">>, <<"my commission expires:___">>,
                  "Entity Section 1"),
       MarkerPair(<<"acknowledgment block for entity or trust">>,
                  <<"(signature of notary public)">>, "Entity Section 2") >>

IndividualPairs ==
    << MarkerPair(<<"grantor:">>, <<"name:">>, "Individual Section 1"),
       MarkerPair(<<"acknowledgment block for individual">>,
                  <<"(signature of notary public)">>, "Individual Section 2") >>

\* the pairs the call targets: the entity sections for an individual grantee,
\* the individual sections for any other
TargetPairs(grantee_type) ==
    IF Lower(Strip(grantee_type)) = <<"individual">>
    THEN EntityPairs ELSE IndividualPairs

\* paragraphs = doc.paragraphs: the body's top-level paragraphs
paragraphs == doc.body.paragraphs

\* text = p.text.strip().lower() of paragraph i (0-based)
ScanText(k) == Lower(Strip(ParagraphText(paragraphs[k + 1])))

HasMarker(marker, k) == Contains(ScanText(k), Lower(Strip(marker)))

\* a handler that called the removal on the document as loaded
RemoveEnterBeforeSubstitution ==
    /\ pc = "loaded" /\ path = "app"
    /\ pc' = "resolving"
    /\ pairs' = TargetPairs(party_type)
    /\ to_remove' = <<>>
    /\ UNCHANGED <<reqVars, mapping, doc, response, exc, scan_i, start, start_idx,
                   indices>>

\* the function is entered: grantee_type is normalised, the first call of
\* find_section_indices is to come
RemoveEnter ==
    /\ pc = "substituted" /\ path = "app"
    /\ pc' = "resolving"
    /\ pairs' = TargetPairs(party_type)
    /\ to_remove' = <<>>
    /\ UNCHANGED <<reqVars, mapping, doc, response, exc, scan_i, start, start_idx,
                   indices>>

\* find_section_indices is called for the next pair
FindSectionIndices ==
    /\ pc = "resolving" /\ pairs # <<>>
    /\ pc' = "scanning"
    /\ scan_i' = 0
    /\ start' = None
    /\ start_idx' = None
    /\ indices' = <<>>
    /\ UNCHANGED <<reqVars, mapping, doc, response, exc, pairs, to_remove>>

ScanStep(st, sidx, ind) ==
    /\ scan_i' = scan_i + 1
    /\ start' = st
    /\ start_idx' = sidx
    /\ indices' = ind
    /\ UNCHANGED <<pc, reqVars, mapping, doc, response, exc, pairs, to_remove>>

\* if start is None and start_marker in text
ScanStartFound ==
    /\ pc = "scanning" /\ scan_i < Len(paragraphs)
    /\ start = None /\ HasMarker(Head(pairs).start_marker, scan_i)
    /\ ScanStep(scan_i, scan_i, indices)

\* elif start is not None and end_marker in text
ScanEndFound ==
    /\ pc = "scanning" /\ scan_i < Len(paragraphs)
    /\ start # None /\ HasMarker(Head(pairs).end_marker, scan_i)
    /\ ScanStep(None, start_idx, Append(indices, <<start, scan_i>>))

\* neither branch: the paragraph is passed over
ScanPass ==
    /\ pc = "scanning" /\ scan_i < Len(paragraphs)
    /\ ~(start = None /\ HasMarker(Head(pairs).start_marker, scan_i))
    /\ ~(start # None /\ HasMarker(Head(pairs).end_marker, scan_i))
    /\ ScanStep(start, start_idx, indices)

\* the two checks after the loop, in the order of the code
ScanOutcomeStartFirst(st, ind, start_marker) ==
    IF ind = <<>> /\ start_marker # <<>> THEN "START"
    ELSE IF st # None THEN "END"
    ELSE "OK"

ScanOutcome(st, ind, start_marker) ==
    IF st # None THEN "END"
    ELSE IF ind = <<>> /\ start_marker # <<>> THEN "START"
    ELSE "OK"

\* a raise of a scan that had removed each pair's ranges as they were found
RaiseAfterRemoval(e) ==
    /\ pc' = "raised"
    /\ exc' = e
    /\ doc' = [doc EXCEPT !.body.paragraphs =
                LET ps == doc.body.paragraphs
                    gone(k) == \E r \in DOMAIN to_remove :
                                  to_remove[r][1] <= k - 1 /\ k - 1 <= to_remove[r][2]
                    F[k \in 0..Len(ps)] ==
                        IF k = 0 THEN <<>>
                        ELSE IF gone(k) THEN F[k - 1] ELSE Append(F[k - 1], ps[k])
                IN  F[Len(ps)]]
    /\ UNCHANGED <<reqVars, mapping, response, scanVars>>

Raise(e) ==
    /\ pc' = "raised"
    /\ exc' = e
    /\ UNCHANGED <<reqVars, mapping, doc, response, scanVars>>

\* raise Exception("Could not find END marker ... for section ...")
ScanRaiseEnd ==
    /\ pc = "scanning" /\ scan_i = Len(paragraphs)
    /\ ScanOutcome(start, indices, Head(pairs).start_marker) = "END"
    /\ Raise([type |-> "END", marker |-> Head(pairs).end_marker,
              label |-> Head(pairs).section_label])

\* raise Exception("Could not find START marker ... for section ...")
ScanRaiseStart ==
    /\ pc = "scanning" /\ scan_i = Len(paragraphs)
    /\ ScanOutcome(start, indices, Head(pairs).start_marker) = "START"
    /\ Raise([type |-> "START", marker |-> Head(pairs).start_marker,
              label |-> Head(pairs).section_label])

\* return indices; the caller extends to_remove with them
ScanReturn ==
    /\ pc = "scanning" /\ scan_i = Len(paragraphs)
    /\ ScanOutcome(start, indices, Head(pairs).start_marker) = "OK"
    /\ pc' = "resolving"
    /\ to_remove' = to_remove \o indices
    /\ pairs' = Tail(pairs)
    /\ UNCHANGED <<reqVars, mapping, doc, response, exc, scan_i, start, start_idx,
                   indices>>

\* (a, b) > (c, d) on tuples
TupleGreater(x, y) == x[1] > y[1] \/ (x[1] = y[1] /\ x[2] > y[2])

RECURSIVE SortedReverse(_)
\* sorted(to_remove, reverse=True)
SortedReverse(ranges) ==
    IF ranges = <<>> THEN <<>>
    ELSE LET k == CHOOSE a \in DOMAIN ranges :
                    \A b \in DOMAIN ranges : ~TupleGreater(ranges[b], ranges[a])
         IN  <<ranges[k]>> \o
             SortedReverse([j \in 1..(Len(ranges) - 1) |->
                               IF j < k THEN ranges[j] ELSE ranges[j + 1]])

RECURSIVE RemoveLoop(_, _)
\* the removal loops over the sorted ranges: the paragraphs detached so far, and
\* whether p.getparent() was None (the paragraph was detached already)
RemoveLoop(ranges, removed) ==
    IF ranges = <<>> THEN [removed |-> removed, failed |-> FALSE]
    ELSE LET s == Head(ranges)[1]
             e == Head(ranges)[2]
             hit == { k \in s..e : k \in removed }
         IN  IF hit = {}
             THEN RemoveLoop(Tail(ranges), removed \cup (s..e))
             ELSE LET h == CHOOSE k \in hit : \A j \in hit : j <= k
                  IN  [removed |-> removed \cup ((h + 1)..e), failed |-> TRUE]

RECURSIVE Keep(_, _, _)
\* the paragraphs that are still attached, in their order
Keep(ps, removed, k) ==
    IF k > Len(ps) THEN <<>>
    ELSE (IF (k - 1) \in removed THEN <<>> ELSE <<ps[k]>>) \o Keep(ps, removed, k + 1)

Detach(d, removed) == [d EXCEPT !.body.paragraphs = Keep(d.body.paragraphs, removed, 1)]

\* every pair is resolved: the ranges are removed and the document returned
RemoveRanges ==
    /\ pc = "resolving" /\ pairs = <<>>
    /\ ~RemoveLoop(SortedReverse(to_remove), {}).failed
    /\ pc' = "removed"
    /\ doc' = Detach(doc, RemoveLoop(SortedReverse(to_remove), {}).removed)
    /\ UNCHANGED <<reqVars, mapping, response, exc, scanVars>>

\* p.getparent() is None for a paragraph an earlier range detached
RemoveRangesFails ==
    /\ pc = "resolving" /\ pairs = <<>>
    /\ RemoveLoop(SortedReverse(to_remove), {}).failed
    /\ pc' = "raised"
    /\ exc' = [type |-> "AttributeError", marker |-> <<>>, label |-> ""]
    /\ doc' = Detach(doc, RemoveLoop(SortedReverse(to_remove), {}).removed)
    /\ UNCHANGED <<reqVars, mapping, response, scanVars>>

(***************************************************************************)
(* SpecRemove: remove_acknowledgment_blocks_enforced called on a document. *)
(***************************************************************************)
MaxParas == 3

Par(t) == <<Run(t, Plain)>>
ParTE == Par(<<"[", "Trust/Entity Name", "]">>)
ParMC == Par(<<"My Commission Expires:___">>)
ParAE == Par(<<"Acknowledgment Block for Entity or Trust">>)
ParSN == Par(<<"(Signature of Notary Public)">>)
ParGR == Par(<<"GRANTOR:">>)
ParNM == Par(<<"Name:", " ">>)
ParAI == Par(<<"Acknowledgment Block for Individual">>)
ParBY == Par(<<"By:">>)
ParaKinds == {ParTE, ParMC, ParAE, ParSN, ParGR, ParNM, ParAI, ParBY}

\* a template with an individual and an entity signature and acknowledgment block
BaseTemplate ==
    <<ParGR, ParNM, ParAI, ParSN, ParTE, ParBY, ParMC, ParAE, ParSN>>

Without(ps, k) == [j \in 1..(Len(ps) - 1) |-> IF j < k THEN ps[j] ELSE ps[j + 1]]
WithAt(ps, k, p) ==
    [j \in 1..(Len(ps) + 1) |-> IF j < k THEN ps[j] ELSE IF j = k THEN p ELSE ps[j - 1]]

RECURSIVE ParaSeqs(_)
ParaSeqs(n) ==
    IF n = 0 THEN {<<>>}
    ELSE ParaSeqs(n - 1) \cup
         { Append(ps, p) : <<ps, p>> \in ParaSeqs(n - 1) \X ParaKinds }

RemoveBodies ==
    ParaSeqs(MaxParas) \cup {BaseTemplate}
    \cup { Without(BaseTemplate, k) : k \in DOMAIN BaseTemplate }
    \cup { WithAt(BaseTemplate, k, p) :
            <<k, p>> \in (1..(Len(BaseTemplate) + 1)) \X ParaKinds }

BodyDoc(ps) == [body |-> Block(ps, <<>>), sections |-> OneSection(EmptyBlock, EmptyBlock)]

GranteeTypes == {<<"Individual">>, <<" ", "INDIVIDUAL">>, <<"Entity or Trust">>}

InitRemove ==
    /\ pc = "substituted"
    /\ path = "app"
    /\ track_changes = FALSE
    /\ mapping_raw = <<>>
    /\ mapping = <<>>
    /\ party_type \in GranteeTypes
    /\ docx_file \in { BodyDoc(ps) : ps \in RemoveBodies }
    /\ image_files = <<>>
    /\ call = NoCall
    /\ disk = TemplateFiles
    /\ template_text = NoText
    /\ uploads = {}
    /\ tokens = NoTokens
    /\ doc = docx_file
    /\ response = NoResponse
    /\ exc = NoExc
    /\ ScanIdle

NextRemove ==
    \/ RemoveEnter
    \/ FindSectionIndices
    \/ ScanStartFound
    \/ ScanEndFound
    \/ ScanPass
    \/ ScanRaiseEnd
    \/ ScanRaiseStart
    \/ ScanReturn
    \/ RemoveRanges
    \/ RemoveRangesFails

SpecRemove == InitRemove /\ [][NextRemove]_vars

(***************************************************************************)
(* Vocabulary of the properties of section removal.                        *)
(***************************************************************************)
\* paragraph k (0-based) of the document as it was passed in
OrigText(k) == Lower(Strip(ParagraphText(docx_file.body.paragraphs[k + 1])))
OrigHas(marker, k) == Contains(OrigText(k), Lower(Strip(marker)))
OrigIndexes == 0..(Len(docx_file.body.paragraphs) - 1)

AtDocumentEnd == pc = "scanning" /\ scan_i = Len(paragraphs)

MarkerError(t, marker, label) == [type |-> t, marker |-> marker, label |-> label]

C10_AmbiguousMatchFails ==
    pc = "removed" => Len(to_remove) = Len(TargetPairs(party_type))

\* the header texts of the two acknowledgment blocks and the marker that ends
\* each of them
IndividualHeader == <<"acknowledgment block for individual">>
EntityHeader == <<"acknowledgment block for entity or trust">>
NotaryEnd == <<"(signature of notary public)">>

\* the paragraphs (0-based) of the document passed in that hold a marker
OrigWith(marker) == { k \in OrigIndexes : OrigHas(marker, k) }

\* the paragraphs of the document as it is now that hold a header text
NowWith(marker) ==
    { k \in 0..(Len(paragraphs) - 1) : HasMarker(marker, k) }

\* the document passed in holds the block of one header: one paragraph with the
\* header, the end marker after it, and no other header in between
BlockPresent(header, other) ==
    /\ Cardinality(OrigWith(header)) = 1
    /\ \E e \in OrigWith(NotaryEnd) :
        /\ \A h \in OrigWith(header) : h < e
        /\ \A o \in OrigWith(other) : \A h \in OrigWith(header) : o < h \/ o > e

BothBlocksPresent ==
    /\ BlockPresent(IndividualHeader, EntityHeader)
    /\ BlockPresent(EntityHeader, IndividualHeader)

IsIndividual == Lower(Strip(party_type)) = <<"individual">>

(***************************************************************************)
(* C11.  Section removal exclusivity: from a document that holds both an   *)
(* individual and an entity acknowledgment block, the removal for grantee  *)
(* type "individual" returns a document with no paragraph holding the      *)
(* entity header text and exactly one holding the individual header text;  *)
(* for any other grantee type it returns the mirror result.                *)
(***************************************************************************)
C11_RemovalExclusive ==
    (pc = "removed" /\ BothBlocksPresent) =>
        IF IsIndividual
        THEN /\ NowWith(EntityHeader) = {}
             /\ Cardinality(NowWith(IndividualHeader)) = 1
        ELSE /\ NowWith(IndividualHeader) = {}
             /\ Cardinality(NowWith(EntityHeader)) = 1

(***************************************************************************)
(* C12.  Section removal is all-or-nothing: when a targeted marker pair    *)
(* fails to resolve (the START or the END error is raised), no paragraph   *)
(* of the document has been removed; the document changes only in the step *)
(* taken after every targeted pair has been resolved.                      *)
(***************************************************************************)
C12_AllOrNothing ==
    /\ []((pc = "raised" /\ exc.type \in {"START", "END"}) => doc = docx_file)
    /\ [][ doc' # doc =>
              /\ pc = "resolving" /\ pairs = <<>>
              /\ Len(to_remove) >= Len(TargetPairs(party_type)) ]_vars

\* the first targeted pair resolved to a range, the second did not resolve, and
\* the document is as it was passed in
C12_Witness ==
    /\ pc = "raised"
    /\ exc.type \in {"START", "END"}
    /\ to_remove # <<>>
    /\ Len(pairs) = 1
    /\ doc = docx_file

(***************************************************************************)
(* The block generator of block_replacer.py as far as the request path     *)
(* calls it: getSigBlock, notrary_generator and generator.  The content of *)
(* a template file is one symbol named after the file.                     *)
(***************************************************************************)
Sep == "\n\n"

\* the two template file names getSigBlock selects, NoFile for None
NoFile == "None"
\* SigBlockFiles, were the default of an unrecognised owner type the
\* individual template
SigBlockFilesIndividualDefault(owner_type, num_signatures) ==
    LET second(f) == IF num_signatures = 2 THEN f ELSE NoFile
    IN  IF owner_type = <<"his/her sole property">> /\ num_signatures = 1
            THEN <<"SI1.txt", NoFile>>
        ELSE IF owner_type = <<"a married couple">> /\ num_signatures = 2
            THEN <<"I1.txt", "I1.txt">>
        ELSE IF owner_type \in {<<"Corporation">>, <<"LLC">>, <<"LP">>, <<"Trust">>}
            THEN <<"E1.txt", second("E1.txt")>>
        ELSE IF owner_type = <<"Sole Owner, married couple">> /\ num_signatures = 2
            THEN <<"I1.txt", "SI1.txt">>
        ELSE <<"I1.txt", second("I1.txt")>>

SigBlockFiles(owner_type, num_signatures) ==
    LET second(f) == IF num_signatures = 2 THEN f ELSE NoFile
    IN  IF owner_type = <<"his/her sole property">> /\ num_signatures = 1
            THEN <<"SI1.txt", NoFile>>
        ELSE IF owner_type = <<"a married couple">> /\ num_signatures = 2
            THEN <<"I1.txt", "I1.txt">>
        ELSE IF owner_type \in {<<"Corporation">>, <<"LLC">>, <<"LP">>, <<"Trust">>}
            THEN <<"E1.txt", second("E1.txt")>>
        ELSE IF owner_type = <<"Sole Owner, married couple">> /\ num_signatures = 2
            THEN <<"I1.txt", "SI1.txt">>
        ELSE IF Contains(Lower(owner_type), <<"individual">>)
            THEN <<"I1.txt", second("I1.txt")>>
        ELSE <<"E1.txt", second("E1.txt")>>

\* the content read from templates/sigBlocks/<file>, stripped; the message
\* that stands for it when the file does not exist; None read as ''
FileContent(f) ==
    IF f = NoFile THEN <<>>
    ELSE IF f \in disk THEN <<f>>
    ELSE <<"Template file '", f, "' not found at ", "templates/sigBlocks/", f>>

\* [filename1Content, filename2Content], None read as '' by generator
getSigBlock(owner_type, num_signatures) ==
    [k \in 1..2 |-> FileContent(SigBlockFiles(owner_type, num_signatures)[k])]

\* the content of templates/Notorary/notrary.txt, the message of the
\* except FileNotFoundError branch when it does not exist
notrary_generator ==
    IF "notrary.txt" \in disk THEN <<"notrary.txt">>
    ELSE <<"Notary block template file 'notrary.txt' not found.">>

RECURSIVE Repeated(_, _)
Repeated(block, n) == IF n <= 0 THEN <<>> ELSE block \o Repeated(block, n - 1)

\* generator, were the notary block appended once after the last signature
\* block instead of after each
GeneratorNotaryOnce(ownerType, is_notary, notary_block, num_signatures) ==
    LET notary_content == notrary_generator
        sigB1 == getSigBlock(ownerType, num_signatures)[1]
        sigB2 == getSigBlock(ownerType, num_signatures)[2]
        with_notary == is_notary /\ notary_content # <<>>
    IN  IF ownerType = <<"Sole owner, married couple">>
        THEN IF is_notary
             THEN sigB1 \o (IF with_notary THEN <<Sep>> \o notary_content ELSE <<>>)
                  \o <<Sep>> \o sigB2
                  \o (IF with_notary THEN <<Sep>> \o notary_content ELSE <<>>)
             ELSE sigB1 \o <<Sep>> \o sigB2
        ELSE Repeated(<<Sep>> \o sigB1, num_signatures)
             \o (IF with_notary THEN <<Sep>> \o notary_content ELSE <<>>)

generator(ownerType, is_notary, notary_block, num_signatures) ==
    LET notary_content == notrary_generator
        sigB1 == getSigBlock(ownerType, num_signatures)[1]
        sigB2 == getSigBlock(ownerType, num_signatures)[2]
        with_notary == is_notary /\ notary_content # <<>>
    IN  IF ownerType = <<"Sole owner, married couple">>
        THEN IF is_notary
             THEN sigB1 \o (IF with_notary THEN <<Sep>> \o notary_content ELSE <<>>)
                  \o <<Sep>> \o sigB2
                  \o (IF with_notary THEN <<Sep>> \o notary_content ELSE <<>>)
             ELSE sigB1 \o <<Sep>> \o sigB2
        ELSE Repeated(IF with_notary
                      THEN <<Sep>> \o sigB1 \o <<Sep>> \o notary_content
                      ELSE <<Sep>> \o sigB1,
                      num_signatures)

\* load_block_template: open() of templates/blocks/<filename>, which raises
\* FileNotFoundError when the file does not exist
LoadBlockTemplateRaises(filename) == filename \notin disk
load_block_template(filename) == <<filename>>

\* the template file generate_signature_block loads for a block_type
SignatureTemplate(block_type) ==
    IF block_type = <<"individual">> THEN "individual_signature.txt"
    ELSE "entity_signature.txt"

generate_signature_block(grantor_name, block_type) ==
    IF block_type = <<"individual">>
    THEN Replace(load_block_template(SignatureTemplate(block_type)),
                 <<"[", "Grantor Name", "]">>, grantor_name)
    ELSE Replace(Replace(Replace(
            load_block_template(SignatureTemplate(block_type)),
            <<"[", "Trust/Entity Name", "]">>, <<>>),
            <<"[", "Name", "]">>, <<>>),
            <<"[", "Title", "]">>, <<>>)

(***************************************************************************)
(* Dicts: a sequence of [key, value] items with distinct keys, in          *)
(* insertion order.                                                        *)
(***************************************************************************)
HasKey(d, k) == \E i \in DOMAIN d : d[i].key = k
Get(d, k) == d[CHOOSE i \in DOMAIN d : d[i].key = k].value

\* d[k] = v: an existing key keeps its place
DictSet(d, k, v) ==
    IF HasKey(d, k)
    THEN [i \in DOMAIN d |-> IF d[i].key = k THEN Item(k, v) ELSE d[i]]
    ELSE Append(d, Item(k, v))

RECURSIVE DictFrom(_, _)
\* {item['key']: item['value'] for item in mapping_raw if item['value'].strip()}
DictFrom(raw, d) ==
    IF raw = <<>> THEN d
    ELSE DictFrom(Tail(raw),
                  IF Strip(Head(raw).value) # <<>>
                  THEN DictSet(d, Head(raw).key, Head(raw).value)
                  ELSE d)

KeySignatureBlock == <<"[", "Signature Block", "]">>
KeySignatureBlockWithNotrary == <<"[", "Signature Block With Notrary", "]">>
KeyNumberOfSignatures == <<"[", "Number of Grantor Signatures", "]">>
OwnerTypeKeys == << <<"[", "Owner Type", "]">>, <<"[", "Grantor Type", "]">>,
                    <<"[", "Grantee Type", "]">> >>

\* the standard type for a declared owner type, the declared value otherwise
StandardOwnerType(declared) ==
    LET owner_type == Lower(Strip(declared))
    IN  IF owner_type \in {<<"individual">>, <<"person">>} THEN <<"individual">>
        ELSE IF owner_type \in {<<"entity">>, <<"corporation">>, <<"corp">>}
            THEN <<"corporation">>
        ELSE IF owner_type \in {<<"llc">>, <<"limited liability company">>}
            THEN <<"llc">>
        ELSE IF owner_type \in {<<"lp">>, <<"limited partnership">>} THEN <<"lp">>
        ELSE IF owner_type \in {<<"married couple">>, <<"couple">>}
            THEN <<"married_couple">>
        ELSE IF owner_type \in {<<"sole owner married couple">>,
                                <<"sole owner, married couple">>}
            THEN <<"Sole owner, married couple">>
        ELSE Strip(declared)

RECURSIVE DetectFrom(_, _)
DetectFrom(m, keys) ==
    IF keys = <<>> THEN <<"individual">>
    ELSE IF HasKey(m, Head(keys)) /\ Strip(Get(m, Head(keys))) # <<>>
         THEN StandardOwnerType(Get(m, Head(keys)))
         ELSE DetectFrom(m, Tail(keys))

_detect_owner_type(m) == DetectFrom(m, OwnerTypeKeys)

\* int(mapping['[Number of Grantor Signatures]']), 1 when it does not parse
NumSignatures(m) ==
    IF ~HasKey(m, KeyNumberOfSignatures) THEN 1
    ELSE LET v == Strip(Get(m, KeyNumberOfSignatures))
         IN  IF v = <<"0">> THEN 0
             ELSE IF v = <<"1">> THEN 1
             ELSE IF v = <<"2">> THEN 2
             ELSE IF v = <<"3">> THEN 3
             ELSE 1

Provided(m, k) == HasKey(m, k) /\ Strip(Get(m, k)) # <<>>

\* _auto_generate_signature_blocks, were both blocks generated whenever one
\* of them is missing
AutoGenerateBoth(m) ==
    IF Provided(m, KeySignatureBlock) /\ Provided(m, KeySignatureBlockWithNotrary)
    THEN m
    ELSE LET owner_type == _detect_owner_type(m)
             num_signatures == NumSignatures(m)
         IN  DictSet(DictSet(m, KeySignatureBlock,
                             generator(owner_type, FALSE, <<>>, num_signatures)),
                     KeySignatureBlockWithNotrary,
                     generator(owner_type, TRUE, <<>>, num_signatures))

_auto_generate_signature_blocks(m) ==
    IF Provided(m, KeySignatureBlock) /\ Provided(m, KeySignatureBlockWithNotrary)
    THEN m
    ELSE LET owner_type == _detect_owner_type(m)
             num_signatures == NumSignatures(m)
             m1 == IF ~Provided(m, KeySignatureBlock)
                   THEN DictSet(m, KeySignatureBlock,
                                generator(owner_type, FALSE, <<>>, num_signatures))
                   ELSE m
         IN  IF ~Provided(m1, KeySignatureBlockWithNotrary)
             THEN DictSet(m1, KeySignatureBlockWithNotrary,
                          generator(owner_type, TRUE, <<>>, num_signatures))
             ELSE m1

(***************************************************************************)
(* remove_entity_signature_block of app.py.                                *)
(***************************************************************************)
remove_entity_signature_block(d) ==
    LET ps == d.body.paragraphs
        found == { k \in DOMAIN ps :
                    Lower(Strip(ParagraphText(ps[k]))) = <<"[", "trust/entity name", "]">> }
    IN  IF found = {} THEN d
        ELSE LET idx_sig == (CHOOSE k \in found : \A j \in found : k <= j) - 1
                 end == Min(idx_sig + 4, Len(ps))
             IN  Detach(d, idx_sig..(end - 1))

(***************************************************************************)
(* The /lease_population_replace handler of app.py.                        *)
(***************************************************************************)
Respond(status, kind) ==
    /\ pc' = "done"
    /\ response' = [status |-> status, kind |-> kind]

\* not mapping_raw, an empty key, or two items with one key
InvalidKeys(raw) ==
    \/ raw = <<>>
    \/ \E i \in DOMAIN raw : raw[i].key = <<>>
    \/ Cardinality({ raw[i].key : i \in DOMAIN raw }) # Len(raw)

AppRejectMapping ==
    /\ pc = "received" /\ path = "app"
    /\ InvalidKeys(mapping_raw)
    /\ Respond(400, "Invalid or duplicate keys")
    /\ mapping' = DictFrom(mapping_raw, <<>>)
    /\ UNCHANGED <<reqVars, doc, exc, scanVars>>

AppRejectPartyType ==
    /\ pc = "received" /\ path = "app"
    /\ ~InvalidKeys(mapping_raw)
    /\ party_type = <<>>
    /\ Respond(400, "Party type is required")
    /\ mapping' = DictFrom(mapping_raw, <<>>)
    /\ UNCHANGED <<reqVars, doc, exc, scanVars>>

AppAccept ==
    /\ pc = "received" /\ path = "app"
    /\ ~InvalidKeys(mapping_raw)
    /\ party_type # <<>>
    /\ pc' = "validated"
    /\ mapping' = DictFrom(mapping_raw, <<>>)
    /\ UNCHANGED <<reqVars, doc, response, exc, scanVars>>

\* doc = Document(docx_file)
Load ==
    /\ pc' = "loaded"
    /\ doc' = docx_file
    /\ UNCHANGED <<reqVars, mapping, response, exc, scanVars>>

AppLoad ==
    /\ pc = "validated" /\ path = "app"
    /\ Load

AppRemoveEntitySignature ==
    /\ pc = "removed" /\ path = "app"
    /\ pc' = "signature_removed"
    /\ doc' = IF party_type = <<"Individual">>
              THEN remove_entity_signature_block(doc) ELSE doc
    /\ UNCHANGED <<reqVars, mapping, response, exc, scanVars>>

\* doc.save(out_stream); send_file(out_stream, ...)
AppSend ==
    /\ pc = "signature_removed" /\ path = "app"
    /\ Respond(200, "document")
    /\ UNCHANGED <<reqVars, mapping, doc, exc, scanVars>>

\* except Exception as e: the error response
Except ==
    /\ pc = "raised"
    /\ Respond(500, "Failed to process DOCX")
    /\ UNCHANGED <<reqVars, mapping, doc, exc, scanVars>>

(***************************************************************************)
(* The image embedders: ImageEmbeddingHandler.embed_image_enhanced of      *)
(* lease_population/image_handler.py and embedImage of block_replacer.py.  *)
(* An image_data string is modelled by what the checks of the embedders    *)
(* see of it: its kind, and the pixel width of the picture it decodes to.  *)
(***************************************************************************)
max_width_pixels == 576

\* "empty": the empty string; "bad_base64": b64decode raises; "small": fewer
\* than 8 bytes; "unsupported": no known header; "png", "jpeg": a picture of
\* that format; "corrupt_png": a PNG header that Pillow cannot open
ImageKinds == {"empty", "bad_base64", "small", "unsupported", "png", "jpeg",
               "corrupt_png"}
Image(kind, width) == [kind |-> kind, width |-> width]

\* validate_image_file: the error message, "" for a valid file
validate_image_file(image) ==
    CASE image.kind = "small" -> "File too small to be a valid image"
      [] image.kind \in {"png", "jpeg", "corrupt_png"} -> ""
      [] OTHER -> "Unsupported image format"

\* what embed_image_enhanced returns before it looks at the document, "" if it
\* goes on to the placeholder replacement
EnhancedImageError(image) ==
    CASE image.kind = "empty" -> "Invalid image data: must be non-empty string"
      [] image.kind = "bad_base64" -> "Failed to decode base64 image data"
      [] validate_image_file(image) # "" -> validate_image_file(image)
      [] image.kind = "corrupt_png" -> "Failed to process image"
      [] OTHER -> ""

\* whether embedImage reaches the placeholder replacement: a non-empty string
\* that decodes to 8 bytes or more with the PNG header, which Pillow opens
EmbedImageAccepts(image) == image.kind = "png"

\* optimize_image: the width after the resize to max_width_pixels
FinalWidth(image) == Min(image.width, max_width_pixels)

\* the paragraph after paragraph.clear(), add_run(), add_picture(...) and
\* alignment = CENTER: one run, which holds the picture
PictureRun(image) ==
    [text |-> <<>>, font |-> Plain, highlight |-> FALSE,
     picture |-> [width |-> FinalWidth(image), alignment |-> "CENTER"]]

\* process_paragraph of both embedders
embed_process_paragraph(paragraph, placeholder, image) ==
    IF Contains(ParagraphText(paragraph), placeholder)
    THEN <<PictureRun(image)>> ELSE paragraph

embed_paragraphs(ps, placeholder, image) ==
    [i \in DOMAIN ps |-> embed_process_paragraph(ps[i], placeholder, image)]

\* for row in table.rows: for cell in row.cells: for paragraph in
\* cell.paragraphs: the tables of a cell are not visited
embed_process_table(table, placeholder, image) ==
    [r \in DOMAIN table |-> [c \in DOMAIN table[r] |->
        [table[r][c] EXCEPT !.paragraphs = embed_paragraphs(@, placeholder, image)]]]

\* doc.paragraphs and doc.tables
embed_body(block, placeholder, image) ==
    [paragraphs |-> embed_paragraphs(block.paragraphs, placeholder, image),
     tables |-> [t \in DOMAIN block.tables |->
                    embed_process_table(block.tables[t], placeholder, image)]]

\* the document after the replacement loops of embed_image_enhanced: of a
\* header and a footer only the paragraphs are visited
EnhancedEmbedded(d, placeholder, image) ==
    [body |-> embed_body(d.body, placeholder, image),
     sections |-> [s \in DOMAIN d.sections |->
        [header |-> [d.sections[s].header EXCEPT
                        !.paragraphs = embed_paragraphs(@, placeholder, image)],
         footer |-> [d.sections[s].footer EXCEPT
                        !.paragraphs = embed_paragraphs(@, placeholder, image)]]]]

\* the document after the replacement loops of embedImage: process_block visits
\* the paragraphs and the tables of a header and a footer
EmbedImageEmbedded(d, placeholder, image) ==
    [body |-> embed_body(d.body, placeholder, image),
     sections |-> [s \in DOMAIN d.sections |->
        [header |-> embed_body(d.sections[s].header, placeholder, image),
         footer |-> embed_body(d.sections[s].footer, placeholder, image)]]]

\* placeholder_count: the paragraphs the loops replaced
PlaceholderCount(before, after) ==
    LET b == DocParagraphs(before)
        a == DocParagraphs(after)
    IN  Cardinality({ i \in DOMAIN b : b[i] # a[i] })

EmbedResult(success, error, found) ==
    [success |-> success, error |-> error, placeholders_found |-> found]

\* an embedder for which a placeholder that is nowhere is a silent no-op
EmbedSilentlyWhenMissing(d, image, placeholder) ==
    LET embedded == EnhancedEmbedded(d, placeholder, image)
    IN  IF EnhancedImageError(image) # ""
        THEN [doc |-> d, result |-> EmbedResult(FALSE, EnhancedImageError(image), 0)]
        ELSE [doc |-> embedded,
              result |-> EmbedResult(TRUE, "", PlaceholderCount(d, embedded))]

\* embed_image_enhanced: the document it leaves and the result dict it returns
\* (error "" stands for None)
embed_image_enhanced(d, image, placeholder) ==
    LET embedded == EnhancedEmbedded(d, placeholder, image)
        count == PlaceholderCount(d, embedded)
    IN  IF EnhancedImageError(image) # ""
        THEN [doc |-> d, result |-> EmbedResult(FALSE, EnhancedImageError(image), 0)]
        ELSE IF count = 0
        THEN [doc |-> d,
              result |-> EmbedResult(FALSE, "Placeholder not found in document", 0)]
        ELSE [doc |-> embedded, result |-> EmbedResult(TRUE, "", count)]

\* embedImage: the document it leaves and the bool it returns
embedImage(d, image, placeholder) ==
    LET embedded == EmbedImageEmbedded(d, placeholder, image)
    IN  IF ~EmbedImageAccepts(image) THEN [doc |-> d, result |-> FALSE]
        ELSE IF PlaceholderCount(d, embedded) = 0 THEN [doc |-> d, result |-> FALSE]
        ELSE [doc |-> embedded, result |-> TRUE]

(***************************************************************************)
(* LeasePopulationProcessor.process_lease_population ("core") and          *)
(* process_lease_population_enhanced ("enhanced") of core.py; the latter is *)
(* called with the uploaded image files.                                   *)
(***************************************************************************)
CorePaths == {"core", "enhanced"}

\* _parse_mapping raises ValueError('Invalid mapping format')
CoreParseFails ==
    /\ pc = "received" /\ path \in CorePaths
    /\ mapping_raw = <<>>
    /\ Raise([type |-> "ValueError", marker |-> <<>>, label |-> ""])

\* the dict _parse_mapping returns
_parse_mapping(raw) == DictFrom(raw, <<>>)

CoreParse ==
    /\ pc = "received" /\ path \in CorePaths
    /\ mapping_raw # <<>>
    /\ pc' = "parsed"
    /\ mapping' = _parse_mapping(mapping_raw)
    /\ UNCHANGED <<reqVars, doc, response, exc, scanVars>>

CoreAutoGenerate ==
    /\ pc = "parsed" /\ path \in CorePaths
    /\ pc' = "generated"
    /\ mapping' = _auto_generate_signature_blocks(mapping)
    /\ UNCHANGED <<reqVars, doc, response, exc, scanVars>>

\* an entry of the dict whose value is the dict of an uploaded image
ImageEntry(k, image) == [key |-> k, value |-> <<>>, image_data |-> image]
IsImageEntry(item) == "image_data" \in DOMAIN item

\* the placeholder _process_multiple_images derives from the key of a file:
\* 'exhibit_image', or 'image_i' (key.replace('image_', '[').upper() + ']')
ImagePlaceholder(file_key) ==
    IF file_key = "exhibit_image" THEN <<"[", "EXHIBIT_A_IMAGE_1", "]">>
    ELSE <<"[", "I", "]">>

\* mapping[placeholder] = {...}
DictSetEntry(d, entry) ==
    IF HasKey(d, entry.key)
    THEN [i \in DOMAIN d |-> IF d[i].key = entry.key THEN entry ELSE d[i]]
    ELSE Append(d, entry)

RECURSIVE _process_multiple_images(_, _)
_process_multiple_images(m, files) ==
    IF files = <<>> THEN m
    ELSE _process_multiple_images(
            DictSetEntry(m, ImageEntry(ImagePlaceholder(Head(files).key),
                                       Head(files).image_data)),
            Tail(files))

\* process_lease_population_enhanced: mapping = _process_multiple_images(...)
EnhancedReadImages ==
    /\ pc = "generated" /\ path = "enhanced"
    /\ pc' = "images_read"
    /\ mapping' = _process_multiple_images(mapping, image_files)
    /\ UNCHANGED <<reqVars, doc, response, exc, scanVars>>

\* process_lease_population calls _process_image_data with no image file, which
\* leaves the mapping as it is, and loads the document
CoreLoad ==
    /\ \/ pc = "generated" /\ path = "core"
       \/ pc = "images_read" /\ path = "enhanced"
    /\ Load

RECURSIVE ImagePlaceholdersFrom(_, _, _)
\* the loop of _process_image_placeholders_enhanced over the image entries, from
\* entry i on: the value of an entry whose image was embedded becomes ''
\* (no modelled key is '[image]', the key of the legacy branch)
ImagePlaceholdersFrom(d, m, i) ==
    IF i > Len(m) THEN [doc |-> d, mapping |-> m]
    ELSE IF ~IsImageEntry(m[i]) THEN ImagePlaceholdersFrom(d, m, i + 1)
    ELSE LET out == embed_image_enhanced(d, m[i].image_data, m[i].key)
         IN  ImagePlaceholdersFrom(
                out.doc,
                IF out.result.success THEN [m EXCEPT ![i] = Item(m[i].key, <<>>)] ELSE m,
                i + 1)

_process_image_placeholders_enhanced(d, m) == ImagePlaceholdersFrom(d, m, 1)

EnhancedImagePlaceholders ==
    /\ pc = "loaded" /\ path = "enhanced"
    /\ pc' = "images_done"
    /\ doc' = _process_image_placeholders_enhanced(doc, mapping).doc
    /\ mapping' = _process_image_placeholders_enhanced(doc, mapping).mapping
    /\ UNCHANGED <<reqVars, response, exc, scanVars>>

\* self._process_image_placeholders is not defined: AttributeError
CoreImagePlaceholdersMissing ==
    /\ pc = "loaded" /\ path = "core"
    /\ Raise([type |-> "AttributeError", marker |-> <<>>, label |-> ""])

\* f"NEW:{v}" for every value, in track-changes mode: the dict of an image
\* that was not embedded is formatted into a string
NewPrefix(m) ==
    [i \in DOMAIN m |->
        Item(m[i].key,
             <<"NEW:">> \o (IF IsImageEntry(m[i]) THEN <<"{'image_data': ...}">>
                            ELSE m[i].value))]

\* value.strip() of _replace_placeholders_in_docx is evaluated, for the first
\* paragraph that has runs, on every value up to the first dict
StripRaises(d, m) ==
    /\ \E i \in DOMAIN m : IsImageEntry(m[i])
    /\ \E k \in DOMAIN DocParagraphs(d) : DocParagraphs(d)[k] # <<>>

EnhancedReplace ==
    /\ pc = "images_done" /\ path = "enhanced" /\ ~track_changes
    /\ ~StripRaises(doc, mapping)
    /\ Substituted(_replace_placeholders_in_docx(doc, mapping))

\* AttributeError: 'dict' object has no attribute 'strip'
EnhancedReplaceRaises ==
    /\ pc = "images_done" /\ path = "enhanced" /\ ~track_changes
    /\ StripRaises(doc, mapping)
    /\ Raise([type |-> "AttributeError", marker |-> <<>>, label |-> ""])

EnhancedReplaceTrack ==
    /\ pc = "images_done" /\ path = "enhanced" /\ track_changes
    /\ pc' = "substituted"
    /\ mapping' = NewPrefix(mapping)
    /\ doc' = _replace_placeholders_with_track_changes(doc, NewPrefix(mapping))
    /\ UNCHANGED <<reqVars, response, exc, scanVars>>

\* _generate_final_document
EnhancedSend ==
    /\ pc = "substituted" /\ path = "enhanced"
    /\ Respond(200, "document")
    /\ UNCHANGED <<reqVars, mapping, doc, exc, scanVars>>

(***************************************************************************)
(* Spec: one /lease_population_replace request, served by the handler of   *)
(* app.py or by one of the two processors of core.py.                      *)
(***************************************************************************)
MaxRaw == 2

KeyTE == <<"[", "Trust/Entity Name", "]">>
RawItems ==
    { Item(k, v) : <<k, v>> \in {KeyN, KeyTE, <<>>} \X {<<"x">>, <<>>} }

RECURSIVE RawMappings(_)
RawMappings(n) ==
    IF n = 0 THEN {<<>>}
    ELSE RawMappings(n - 1) \cup
         { Append(m, it) : <<m, it>> \in RawMappings(n - 1) \X RawItems }

RequestDocs ==
    { BodyDoc(BaseTemplate),
      BodyDoc(<<Par(KeyN)>> \o BaseTemplate),
      BodyDoc(<<ParGR, ParNM, ParAI, ParSN>>),
      BodyDoc(<<ParGR, ParAI, ParSN>>),
      BodyDoc(<<ParGR, ParAI, ParNM, ParSN>>),
      BodyDoc(<<Par(<<"[", "N", "]", " ", "N">>)>>),
      DocAt("nested", Par(KeyN)),
      BodyDoc(<<Par(KeyN), Par(ImagePlaceholder("image_i"))>>) }

\* the image files of a request: none, or one file under the key 'image_i'
RequestImages ==
    {<<>>} \cup
    { <<[key |-> "image_i", image_data |-> Image(k, 96)]>> :
        k \in {"png", "unsupported", "corrupt_png"} }

Init ==
    /\ pc = "received"
    /\ path \in {"app", "core", "enhanced"}
    /\ track_changes \in BOOLEAN
    /\ mapping_raw \in RawMappings(MaxRaw)
    /\ mapping = <<>>
    /\ party_type \in IF path = "app"
                      THEN {<<>>, <<"Individual">>, <<"Entity or Trust">>}
                      ELSE {<<>>}
    /\ docx_file \in RequestDocs
    /\ image_files \in IF path = "enhanced" THEN RequestImages ELSE {<<>>}
    /\ call = NoCall
    /\ disk = TemplateFiles
    /\ template_text = NoText
    /\ uploads = {}
    /\ tokens = NoTokens
    /\ doc = NoDoc
    /\ response = NoResponse
    /\ exc = NoExc
    /\ ScanIdle

Next ==
    \/ AppRejectMapping
    \/ AppRejectPartyType
    \/ AppAccept
    \/ AppLoad
    \/ AppReplace
    \/ AppReplaceTrack
    \/ RemoveEnter
    \/ FindSectionIndices
    \/ ScanStartFound
    \/ ScanEndFound
    \/ ScanPass
    \/ ScanRaiseEnd
    \/ ScanRaiseStart
    \/ ScanReturn
    \/ RemoveRanges
    \/ RemoveRangesFails
    \/ AppRemoveEntitySignature
    \/ AppSend
    \/ Except
    \/ CoreParseFails
    \/ CoreParse
    \/ CoreAutoGenerate
    \/ EnhancedReadImages
    \/ CoreLoad
    \/ CoreImagePlaceholdersMissing
    \/ EnhancedImagePlaceholders
    \/ EnhancedReplace
    \/ EnhancedReplaceRaises
    \/ EnhancedReplaceTrack
    \/ EnhancedSend

Spec == Init /\ [][Next]_vars

\* C1: a mapping list with an empty key or with two entries of one key is
\* rejected before the template document is loaded: on every request path the
\* document stays unloaded and no document is ever sent in response.
C1_BadMappingRejected ==
    (\/ \E i \in DOMAIN mapping_raw : mapping_raw[i].key = <<>>
     \/ \E i, j \in DOMAIN mapping_raw : i # j /\ mapping_raw[i].key = mapping_raw[j].key)
        => (doc = NoDoc /\ response.status # 200)

(***************************************************************************)
(* C13.  Pipeline ordering within one request of the handler of app.py:    *)
(* substitution runs once, on the loaded document (in the enhanced         *)
(* processor, on the document with its images embedded), and while the     *)
(* removal resolves its marker pairs the document is the fully substituted *)
(* one; the removal is entered only from the substituted document, the     *)
(* entity signature step only after the removal returned, and the document *)
(* is sent, unchanged by sending, only after that step.                    *)
(***************************************************************************)
C13_PipelineOrdering ==
    /\ []((path = "app" /\ pc \in {"resolving", "scanning"}) =>
            doc = SubstFn(docx_file, mapping))
    /\ [][ pc' = "substituted" =>
              pc = IF path = "enhanced" THEN "images_done" ELSE "loaded" ]_vars
    /\ [][ (pc' = "resolving" /\ pc # "scanning") => pc = "substituted" ]_vars
    /\ [][ pc' = "signature_removed" => pc = "removed" ]_vars
    /\ [][ (path = "app" /\ response'.status = 200) =>
              (pc = "signature_removed" /\ doc' = doc) ]_vars

\* a request of app.py answered with a document that substitution changed and
\* from which the removal then took paragraphs
C13_Witness ==
    /\ path = "app" /\ pc = "done" /\ response.status = 200
    /\ SubstFn(docx_file, mapping) # docx_file
    /\ Len(doc.body.paragraphs) < Len(docx_file.body.paragraphs)

\* the embedding of the uploaded image of the request fails: its data is not a
\* picture the embedder accepts, or its placeholder is in no visited paragraph
ImageFails ==
    /\ path = "enhanced" /\ image_files # <<>>
    /\ ~embed_image_enhanced(docx_file, image_files[1].image_data,
                             ImagePlaceholder(image_files[1].key)).result.success

\* the entries of the dict that are not the entry of the uploaded image
TextEntries(m) ==
    SelectSeq(m, LAMBDA it : it.key # ImagePlaceholder(image_files[1].key))

(***************************************************************************)
(* C16.  Image failures are isolated: in process_lease_population_enhanced *)
(* a request with a mapping list that parses and an uploaded image that    *)
(* fails to embed is still answered with the document, in which the text   *)
(* placeholders are substituted as they are without the image; it is not   *)
(* answered with an error.                                                 *)
(***************************************************************************)
C16_ImageFailureIsolated ==
    (ImageFails /\ mapping_raw # <<>> /\ pc = "done") =>
        /\ response.status = 200
        /\ doc = SubstFn(docx_file, TextEntries(mapping))

(***************************************************************************)
(* SpecImage: an embedder called on a loaded document with one image and   *)
(* one placeholder.                                                        *)
(***************************************************************************)
KeyImage == <<"[", "I", "]">>

\* the paragraphs a location of the document may hold: none, one without the
\* placeholder, one that is the placeholder, one that contains it
ImageParas ==
    { <<>>,
      <<Par(<<"a">>)>>,
      <<Par(KeyImage)>>,
      <<<<Run(<<"a", "[">>, Plain), Run(<<"I", "]", "b">>, Bold)>>>> }

\* a document with the paragraphs ps[1..7] at the body, in a table cell, in a
\* table nested in that cell, in the header, in a table of the header, in the
\* footer and in a table of the footer
ImageDoc(ps) ==
    LET cell(own, tables) == Block(own, tables)
    IN  [body |-> Block(ps[1],
                        <<Table1x1(cell(ps[2], <<Table1x1(cell(ps[3], <<>>))>>))>>),
         sections |-> OneSection(
             Block(ps[4], <<Table1x1(cell(ps[5], <<>>))>>),
             Block(ps[6], <<Table1x1(cell(ps[7], <<>>))>>))]

\* at most MaxImageParas of the seven locations hold a paragraph
MaxImageParas == 2

ImageDocs ==
    { ImageDoc(ps) :
        ps \in { q \in [1..7 -> ImageParas] :
                    Cardinality({ k \in 1..7 : q[k] # <<>> }) <= MaxImageParas } }

\* the images an embedder is called with
Images ==
    { Image(k, 96) : k \in ImageKinds } \cup { Image("png", 1152), Image("jpeg", 1152) }

Embedders == {"embed_image_enhanced", "embedImage"}

InitImage ==
    /\ pc = "loaded"
    /\ path \in Embedders
    /\ track_changes = FALSE
    /\ mapping_raw = <<>>
    /\ mapping = <<>>
    /\ party_type = <<>>
    /\ docx_file \in ImageDocs
    /\ image_files \in { <<[placeholder |-> KeyImage, image_data |-> im]>> : im \in Images }
    /\ call = NoCall
    /\ disk = TemplateFiles
    /\ template_text = NoText
    /\ uploads = {}
    /\ tokens = NoTokens
    /\ doc = docx_file
    /\ response = NoResponse
    /\ exc = NoExc
    /\ ScanIdle

Embedded(out) ==
    /\ pc' = "embedded"
    /\ doc' = out.doc
    /\ response' = out.result
    /\ UNCHANGED <<reqVars, mapping, exc, scanVars>>

EmbedImageEnhanced ==
    /\ pc = "loaded" /\ path = "embed_image_enhanced"
    /\ Embedded(embed_image_enhanced(doc, image_files[1].image_data, image_files[1].placeholder))

EmbedImage ==
    /\ pc = "loaded" /\ path = "embedImage"
    /\ Embedded(embedImage(doc, image_files[1].image_data, image_files[1].placeholder))

NextImage == EmbedImageEnhanced \/ EmbedImage

SpecImage == InitImage /\ [][NextImage]_vars

\* the paragraphs of the document passed in, anywhere in its content tree, that
\* contain the placeholder
WithPlaceholder ==
    LET b == Before
    IN  { i \in DOMAIN b : Contains(ParagraphText(b[i]), image_files[1].placeholder) }

(***************************************************************************)
(* C14.  Image embedding with a missing placeholder: when no paragraph of  *)
(* the document contains the placeholder, embed_image_enhanced returns     *)
(* success = false with a non-empty error, embedImage returns False, and   *)
(* the document is as it was before the call.                              *)
(***************************************************************************)
C14_MissingPlaceholderFails ==
    (pc = "embedded" /\ WithPlaceholder = {}) =>
        /\ doc = docx_file
        /\ IF path = "embed_image_enhanced"
           THEN response.success = FALSE /\ response.error # ""
           ELSE response = FALSE

\* a valid picture was embedded in a document without the placeholder, and the
\* embedder reported the failure
C14_Witness ==
    /\ pc = "embedded" /\ WithPlaceholder = {}
    /\ image_files[1].image_data.kind = "png"
    /\ Len(Before) > 0
    /\ path = "embed_image_enhanced"
    /\ response.success = FALSE

(***************************************************************************)
(* C15.  Image placement: for valid image data, embed_image_enhanced       *)
(* replaces every paragraph whose text contains the placeholder (in the    *)
(* body, inside tables, in headers and footers) by a paragraph holding     *)
(* exactly one centered picture run, returns success = true and reports    *)
(* placeholders_found equal to the number of paragraphs that contained the *)
(* placeholder; every other paragraph is unchanged.                        *)
(***************************************************************************)
C15_EveryPlaceholderReplaced ==
    (/\ pc = "embedded" /\ path = "embed_image_enhanced"
     /\ image_files[1].image_data.kind \in {"png", "jpeg"}
     /\ WithPlaceholder # {}) =>
        LET b == Before
            a == After
        IN  /\ response.success = TRUE
            /\ response.placeholders_found = Cardinality(WithPlaceholder)
            /\ \A i \in DOMAIN b :
                a[i] = IF i \in WithPlaceholder
                       THEN <<PictureRun(image_files[1].image_data)>>
                       ELSE b[i]

(***************************************************************************)
(* SpecGen: the block generator called directly, on every set of template  *)
(* files that may be present on disk: generator and getSigBlock with an    *)
(* owner type and a signature count, generate_signature_block with a       *)
(* block type.                                                             *)
(***************************************************************************)
MaxSignatures == 3

OwnerTypes ==
    { <<"individual">>, <<"Individual">>, <<"co-", "INDIVIDUAL">>,
      <<"his/her sole property">>, <<"a married couple">>,
      <<"Corporation">>, <<"corporation">>, <<"LLC">>, <<"LP">>, <<"Trust">>,
      <<"Sole Owner, married couple">>, <<"Sole owner, married couple">>,
      <<"married_couple">>, <<"Partnership">>, <<>> }

GeneratorCalls ==
    [ownerType : OwnerTypes, is_notary : BOOLEAN,
     num_signatures : 1..MaxSignatures]

GetSigBlockCalls ==
    [ownerType : OwnerTypes, is_notary : {FALSE},
     num_signatures : 1..MaxSignatures]

SignatureBlockCalls ==
    [block_type : {<<"individual">>, <<"entity">>},
     grantor_name : {<<>>, <<"N">>}]

InitGen ==
    /\ pc = "called"
    /\ path \in {"generator", "getSigBlock", "generate_signature_block"}
    /\ call \in CASE path = "generator" -> GeneratorCalls
                [] path = "getSigBlock" -> GetSigBlockCalls
                [] OTHER -> SignatureBlockCalls
    /\ disk \in SUBSET TemplateFiles
    /\ template_text = NoText
    /\ uploads = {}
    /\ tokens = NoTokens
    /\ track_changes = FALSE
    /\ mapping_raw = <<>>
    /\ mapping = <<>>
    /\ party_type = <<>>
    /\ docx_file = NoDoc
    /\ image_files = <<>>
    /\ doc = NoDoc
    /\ response = NoResponse
    /\ exc = NoExc
    /\ ScanIdle

\* the call returns value
Returned(value) ==
    /\ pc' = "returned"
    /\ response' = value
    /\ UNCHANGED <<reqVars, mapping, doc, exc, scanVars>>

Generator ==
    /\ pc = "called" /\ path = "generator"
    /\ Returned(generator(call.ownerType, call.is_notary, <<>>, call.num_signatures))

GetSigBlock ==
    /\ pc = "called" /\ path = "getSigBlock"
    /\ Returned(getSigBlock(call.ownerType, call.num_signatures))

GenerateSignatureBlock ==
    /\ pc = "called" /\ path = "generate_signature_block"
    /\ ~LoadBlockTemplateRaises(SignatureTemplate(call.block_type))
    /\ Returned(generate_signature_block(call.grantor_name, call.block_type))

GenerateSignatureBlockRaises ==
    /\ pc = "called" /\ path = "generate_signature_block"
    /\ LoadBlockTemplateRaises(SignatureTemplate(call.block_type))
    /\ Raise([type |-> "FileNotFoundError", marker |-> <<>>,
              label |-> SignatureTemplate(call.block_type)])

NextGen ==
    \/ Generator
    \/ GetSigBlock
    \/ GenerateSignatureBlock
    \/ GenerateSignatureBlockRaises

SpecGen == InitGen /\ [][NextGen]_vars

(***************************************************************************)
(* Vocabulary of the block generator properties.                           *)
(***************************************************************************)
\* the owner-type strings of the sole-owner-married-couple variant, as
\* getSigBlock and as generator spell it
SoleOwnerVariants ==
    {<<"Sole Owner, married couple">>, <<"Sole owner, married couple">>}

RECURSIVE JoinBlocks(_)
\* the blocks bs with one blank-line separator between neighbours
JoinBlocks(bs) ==
    IF bs = <<>> THEN <<>>
    ELSE IF Len(bs) = 1 THEN bs[1]
    ELSE bs[1] \o <<Sep>> \o JoinBlocks(Tail(bs))

\* n signature blocks, each followed by one notary block when with_notary
ScaledBlocks(sig, notary, with_notary, n) ==
    IF with_notary
    THEN [k \in 1..(2 * n) |-> IF k % 2 = 1 THEN sig ELSE notary]
    ELSE [k \in 1..n |-> sig]

\* out without the separator it begins with, if it begins with one
SkipSep(out) == IF out # <<>> /\ Head(out) = Sep THEN Tail(out) ELSE out

\* the signature block selected for the call, and the notary block
SelectedBlock == FileContent(SigBlockFiles(call.ownerType, call.num_signatures)[1])
NotaryBlock == notrary_generator

(***************************************************************************)
(* C17.  Signature-count scaling: for an owner type other than the         *)
(* sole-owner-married-couple variant and n >= 1 signatures, what generator *)
(* returns is, after the separator it opens with, exactly n instances of   *)
(* the selected signature block with one blank-line separator between      *)
(* neighbours when no notary is requested, and n signature blocks each     *)
(* immediately followed by exactly one notary block (signature, notary,    *)
(* signature, notary, ...) when one is requested.                          *)
(***************************************************************************)
C17_SignatureCountScaling ==
    (/\ pc = "returned" /\ path = "generator"
     /\ call.ownerType \notin SoleOwnerVariants) =>
        SkipSep(response) =
            JoinBlocks(ScaledBlocks(SelectedBlock, NotaryBlock,
                                    call.is_notary, call.num_signatures))

\* three individual blocks with their three notary blocks were generated
C17_Witness ==
    /\ pc = "returned" /\ path = "generator"
    /\ call = [ownerType |-> <<"individual">>, is_notary |-> TRUE,
               num_signatures |-> 3]
    /\ {"I1.txt", "notrary.txt"} \subseteq disk
    /\ Len(SelectSeq(response, LAMBDA x : x = "I1.txt")) = 3
    /\ Len(SelectSeq(response, LAMBDA x : x = "notrary.txt")) = 3

(***************************************************************************)
(* C18.  Sole-owner-married-couple composition: for the                    *)
(* sole-owner-married-couple owner type with two signatures and every      *)
(* template file on disk, generator returns the individual template (I1)   *)
(* followed by the sole-individual template (SI1), each followed by one    *)
(* notary block when a notary is requested; the owner-type string that     *)
(* takes the two-block branch of generator also makes getSigBlock return   *)
(* the I1/SI1 pair.                                                        *)
(***************************************************************************)
C18_SoleOwnerComposition ==
    (/\ pc = "returned" /\ path = "generator"
     /\ call.ownerType \in SoleOwnerVariants /\ call.num_signatures = 2
     /\ disk = TemplateFiles) =>
        response =
            JoinBlocks(IF call.is_notary
                       THEN << <<"I1.txt">>, NotaryBlock,
                               <<"SI1.txt">>, NotaryBlock >>
                       ELSE << <<"I1.txt">>, <<"SI1.txt">> >>)

\* the owner types getSigBlock compares its argument with
RecognizedOwnerTypes ==
    { <<"his/her sole property">>, <<"a married couple">>, <<"Corporation">>,
      <<"LLC">>, <<"LP">>, <<"Trust">>, <<"Sole Owner, married couple">> }

\* the template file behind the k-th content getSigBlock returned: the
\* content of a file present, the file named by the message otherwise,
\* NoFile for None
SelectedFile(k) ==
    IF response[k] = <<>> THEN NoFile
    ELSE IF Len(response[k]) = 1 THEN response[k][1]
    ELSE response[k][2]

(***************************************************************************)
(* C19.  Template selection is total with an entity fallback: for every    *)
(* owner type and signature count getSigBlock selects a first template; it *)
(* selects a second template only when the signature count is 2; an owner  *)
(* type that is none of the recognized values (compared case-sensitively)  *)
(* and does not contain "individual" (in any letter case) resolves to      *)
(* E1.txt.                                                                 *)
(***************************************************************************)
C19_TemplateSelectionTotal ==
    (pc = "returned" /\ path = "getSigBlock") =>
        /\ SelectedFile(1) \in {"I1.txt", "SI1.txt", "E1.txt"}
        /\ SelectedFile(2) # NoFile => call.num_signatures = 2
        /\ (/\ call.ownerType \notin RecognizedOwnerTypes
            /\ ~Contains(Lower(call.ownerType), <<"individual">>)) =>
                /\ SelectedFile(1) = "E1.txt"
                /\ SelectedFile(2) \in {NoFile, "E1.txt"}

\* an unrecognised owner type with two signatures got the entity template
\* twice
C19_Witness ==
    /\ pc = "returned" /\ path = "getSigBlock"
    /\ call.ownerType = <<"Partnership">> /\ call.num_signatures = 2
    /\ "E1.txt" \in disk
    /\ response = << <<"E1.txt">>, <<"E1.txt">> >>

\* str(n) of a signature count
Str(n) == <<"0", "1", "2", "3", "4", "5", "6", "7", "8", "9">>[n + 1]

\* the template files the call resolves
ResolvedFiles ==
    CASE path = "generate_signature_block" ->
            {SignatureTemplate(call.block_type)}
      [] path = "generator" ->
            {SigBlockFiles(call.ownerType, call.num_signatures)[1]}
            \cup (IF call.is_notary THEN {"notrary.txt"} ELSE {})
      [] OTHER ->
            {SigBlockFiles(call.ownerType, call.num_signatures)[k] : k \in 1..2}
            \ {NoFile}

\* what was returned, as one text
ReturnedText == IF path = "getSigBlock" THEN response[1] \o response[2] ELSE response

(***************************************************************************)
(* C20.  Missing template files fail softly: when a signature or notary    *)
(* template file the block generator resolves is absent on disk, the call  *)
(* does not raise; it returns, and what it returns holds a diagnostic      *)
(* placeholder string that embeds the requested owner type and signature   *)
(* count.                                                                  *)
(***************************************************************************)
C20_MissingTemplateSoft ==
    (pc # "called" /\ ResolvedFiles \ disk # {}) =>
        /\ pc = "returned"
        /\ path \in {"generator", "getSigBlock"} =>
            /\ Contains(ReturnedText, call.ownerType)
            /\ Contains(ReturnedText, <<Str(call.num_signatures)>>)

(***************************************************************************)
(* The enhanced block generator of block_replacer.py:                      *)
(* generate_enhanced_signature_block, generate_notary_block and            *)
(* generate_enhanced_combined_block, called with an owner type, a          *)
(* signature count and the three flags, every other argument left None.    *)
(***************************************************************************)
KeyNotaryBlock == <<"[", "Notary Block", "]">>
SigPattern == "By:________________________\n[Name]\n[Title]"
BlankLines == "\n\n\n"

\* template_mapping.get(owner_type, 'individual_signature_enhanced.txt')
EnhancedTemplate(owner_type) ==
    CASE owner_type = <<"individual">> -> "individual_signature_enhanced.txt"
      [] owner_type = <<"corporation">> -> "corporation_signature_enhanced.txt"
      [] owner_type = <<"llc">> -> "llc_signature_enhanced.txt"
      [] owner_type = <<"lp">> -> "lp_signature_enhanced.txt"
      [] owner_type = <<"married_couple">> ->
            "married_couple_signature_enhanced.txt"
      [] owner_type = <<"sole_owner_married_couple">> ->
            "sole_owner_married_couple_enhanced.txt"
      [] OTHER -> "individual_signature_enhanced.txt"

\* the basic template of the except FileNotFoundError branch
FallbackTemplate(owner_type) ==
    IF owner_type = <<"individual">> THEN "individual_signature.txt"
    ELSE "entity_signature.txt"

\* the fallback load_block_template raises when its file is missing too
EnhancedSignatureRaises(owner_type) ==
    /\ EnhancedTemplate(owner_type) \notin disk
    /\ LoadBlockTemplateRaises(FallbackTemplate(owner_type))

\* f"\nBy:________________________\n[Name {i+1}]\n[Title {i+1}]"
SignatureLine(i) ==
    <<"\nBy:________________________\n[Name ", Str(i), "]\n[Title ", Str(i), "]">>

RECURSIVE SignatureLines(_, _)
\* "\n".join(signature_lines), from line i to line n
SignatureLines(i, n) ==
    IF i > n THEN <<>>
    ELSE IF i = n THEN SignatureLine(i)
    ELSE SignatureLine(i) \o <<"\n">> \o SignatureLines(i + 1, n)

generate_enhanced_signature_block(owner_type, num_signatures) ==
    LET template == IF EnhancedTemplate(owner_type) \in disk
                    THEN template_text.signature
                    ELSE load_block_template(FallbackTemplate(owner_type))
    IN  IF owner_type = <<"married_couple">> /\ num_signatures = 2 THEN template
        ELSE IF /\ num_signatures > 1
                /\ owner_type \notin {<<"married_couple">>,
                                      <<"sole_owner_married_couple">>}
             THEN Replace(template, <<SigPattern>>,
                          SignatureLines(1, num_signatures))
             ELSE template

\* the notary template generate_notary_block loads for a block_type
NotaryTemplate(block_type) ==
    IF block_type = <<"individual">> THEN "individual_notary.txt"
    ELSE "entity_notary.txt"

\* every slot replaced by '' (state, county, ... are None)
generate_notary_block(block_type) ==
    LET slots == Replace(Replace(Replace(template_text.notary,
                    <<"[", "State", "]">>, <<>>),
                    <<"[", "County", "]">>, <<>>),
                    <<"[", "NAME(S) OF INDIVIDUAL(S)", "]">>, <<>>)
    IN  IF block_type = <<"individual">> THEN slots
        ELSE Replace(Replace(slots,
                <<"[", "TYPE OF AUTHORITY", "]">>, <<>>),
                <<"[", "NAME OF ENTITY OR TRUST WHOM INSTRUMENT WAS EXECUTED FOR", "]">>,
                <<>>)

\* block_type = 'individual' if owner_type == 'individual' else 'entity'
NotaryBlockType(owner_type) ==
    IF owner_type = <<"individual">> THEN <<"individual">> ELSE <<"entity">>

\* the lines of step_breakdown
StepBreakdown(owner_type, num_signatures, include_signature, include_notary,
              embed_notary_in_signature) ==
    (IF include_notary
     THEN <<"STEP 1: Notary Block Configuration",
            "  - State: Not specified", "  - County: Not specified",
            "  - Individual(s): Not specified", "">>
     ELSE <<>>)
    \o (IF include_signature
        THEN <<"STEP 2: Signature Block Configuration",
               <<"  - Owner Type: ", owner_type>>,
               <<"  - Number of Signatures: ", Str(num_signatures)>>, "">>
        ELSE <<>>)
    \o (IF embed_notary_in_signature /\ include_signature /\ include_notary
        THEN <<"EMBEDDING: Notary Block embedded within Signature Block">>
        ELSE IF include_signature /\ include_notary
        THEN <<"LAYOUT: Signature and Notary Blocks displayed separately">>
        ELSE <<>>)

\* generate_enhanced_combined_block, were the two blocks always laid out
\* separately
CombinedBlockNeverEmbedded(owner_type, num_signatures, include_signature, include_notary, embed_notary_in_signature) ==
    LET signature_block ==
            generate_enhanced_signature_block(owner_type, num_signatures)
        notary_block == generate_notary_block(NotaryBlockType(owner_type))
        none == [k \in {} |-> <<>>]
    IN  (IF include_signature THEN "signature_block" :> signature_block ELSE none)
        @@ (IF include_notary THEN "notary_block" :> notary_block ELSE none)
        @@ (IF include_signature /\ include_notary
            THEN "combined_block" :>
                    (signature_block \o <<BlankLines>> \o notary_block)
            ELSE IF include_signature
            THEN "combined_block" :>
                    Strip(Replace(signature_block, KeyNotaryBlock, <<>>))
            ELSE IF include_notary
            THEN "combined_block" :> notary_block
            ELSE none)
        @@ [step_breakdown |->
                StepBreakdown(owner_type, num_signatures, include_signature,
                              include_notary, embed_notary_in_signature),
            embed_notary_in_signature |-> embed_notary_in_signature,
            include_signature |-> include_signature,
            include_notary |-> include_notary]

generate_enhanced_combined_block(owner_type, num_signatures, include_signature, include_notary, embed_notary_in_signature) ==
    LET signature_block ==
            generate_enhanced_signature_block(owner_type, num_signatures)
        notary_block == generate_notary_block(NotaryBlockType(owner_type))
        none == [k \in {} |-> <<>>]
    IN  (IF include_signature THEN "signature_block" :> signature_block ELSE none)
        @@ (IF include_notary THEN "notary_block" :> notary_block ELSE none)
        @@ (IF include_signature /\ include_notary /\ embed_notary_in_signature
            THEN "combined_block" :>
                    Replace(signature_block, KeyNotaryBlock, notary_block)
            ELSE IF include_signature /\ include_notary
            THEN "combined_block" :>
                    (signature_block \o <<BlankLines>> \o notary_block)
            ELSE IF include_signature
            THEN "combined_block" :>
                    Strip(Replace(signature_block, KeyNotaryBlock, <<>>))
            ELSE IF include_notary
            THEN "combined_block" :> notary_block
            ELSE none)
        @@ [step_breakdown |->
                StepBreakdown(owner_type, num_signatures, include_signature,
                              include_notary, embed_notary_in_signature),
            embed_notary_in_signature |-> embed_notary_in_signature,
            include_signature |-> include_signature,
            include_notary |-> include_notary]

(***************************************************************************)
(* SpecCombined: generate_enhanced_combined_block called directly, on      *)
(* every set of its template files that may be present and on template     *)
(* texts with and without the [Notary Block] token.                        *)
(***************************************************************************)
MaxEnhancedSignatures == 2

CombinedOwnerTypes == {<<"individual">>, <<"corporation">>, <<"married_couple">>}

CombinedFiles ==
    {"individual_signature_enhanced.txt", "corporation_signature_enhanced.txt",
     "married_couple_signature_enhanced.txt", "individual_signature.txt",
     "entity_signature.txt", "individual_notary.txt", "entity_notary.txt"}

SignatureTexts ==
    { <<"GRANTOR:">>,
      <<"GRANTOR:", "\n">> \o KeyNotaryBlock,
      <<" ">> \o KeyNotaryBlock \o <<" ", "GRANTOR:", SigPattern, " ">>,
      KeyNotaryBlock \o <<"GRANTOR:">> \o KeyNotaryBlock,
      KeyNotaryBlock }

NotaryTexts ==
    { <<"(Signature of Notary Public)">>,
      <<"STATE OF ", "[", "State", "]", " COUNTY OF ", "[", "County", "]",
        "(Signature of Notary Public)">> }

CombinedCalls ==
    [owner_type : CombinedOwnerTypes,
     num_signatures : 1..MaxEnhancedSignatures,
     include_signature : BOOLEAN, include_notary : BOOLEAN,
     embed_notary_in_signature : BOOLEAN]

InitCombined ==
    /\ pc = "called"
    /\ path = "generate_enhanced_combined_block"
    /\ call \in CombinedCalls
    /\ disk \in SUBSET CombinedFiles
    /\ template_text \in [signature : SignatureTexts, notary : NotaryTexts]
    /\ uploads = {}
    /\ tokens = NoTokens
    /\ track_changes = FALSE
    /\ mapping_raw = <<>>
    /\ mapping = <<>>
    /\ party_type = <<>>
    /\ docx_file = NoDoc
    /\ image_files = <<>>
    /\ doc = NoDoc
    /\ response = NoResponse
    /\ exc = NoExc
    /\ ScanIdle

\* an open() of a template file that is not caught raises
CombinedRaises ==
    \/ call.include_signature /\ EnhancedSignatureRaises(call.owner_type)
    \/ /\ call.include_notary
       /\ LoadBlockTemplateRaises(NotaryTemplate(NotaryBlockType(call.owner_type)))

GenerateEnhancedCombinedBlock ==
    /\ pc = "called" /\ path = "generate_enhanced_combined_block"
    /\ ~CombinedRaises
    /\ Returned(generate_enhanced_combined_block(
            call.owner_type, call.num_signatures, call.include_signature,
            call.include_notary, call.embed_notary_in_signature))

GenerateEnhancedCombinedBlockRaises ==
    /\ pc = "called" /\ path = "generate_enhanced_combined_block"
    /\ CombinedRaises
    /\ Raise([type |-> "FileNotFoundError", marker |-> <<>>, label |-> ""])

NextCombined == GenerateEnhancedCombinedBlock \/ GenerateEnhancedCombinedBlockRaises

SpecCombined == InitCombined /\ [][NextCombined]_vars

(***************************************************************************)
(* C21.  Combined block modes: in the result of                            *)
(* generate_enhanced_combined_block, combined_block is (a) the signature   *)
(* block with its [Notary Block] token replaced by the notary block when   *)
(* both blocks are included and embedding is on, (b) the signature block,  *)
(* blank lines, then the notary block when both are included and           *)
(* embedding is off, (c) the notary block alone when the signature is      *)
(* excluded; with only the signature included it is the signature block    *)
(* with the token removed (and no blanks around it); combined_block is     *)
(* present exactly when at least one of the two blocks is included.        *)
(***************************************************************************)
C21_CombinedBlockModes ==
    (pc = "returned" /\ path = "generate_enhanced_combined_block") =>
        /\ "combined_block" \in DOMAIN response
            <=> (call.include_signature \/ call.include_notary)
        /\ (call.include_signature /\ call.include_notary
                /\ call.embed_notary_in_signature) =>
            response.combined_block =
                Replace(response.signature_block, KeyNotaryBlock,
                        response.notary_block)
        /\ (call.include_signature /\ call.include_notary
                /\ ~call.embed_notary_in_signature) =>
            response.combined_block =
                response.signature_block \o <<BlankLines>> \o response.notary_block
        /\ (~call.include_signature /\ call.include_notary) =>
            response.combined_block = response.notary_block
        /\ (call.include_signature /\ ~call.include_notary) =>
            /\ ~Contains(response.combined_block, KeyNotaryBlock)
            /\ response.combined_block =
                Strip(Replace(response.signature_block, KeyNotaryBlock, <<>>))

\* the notary block was embedded in place of the token of a signature block
C21_Witness ==
    /\ pc = "returned" /\ path = "generate_enhanced_combined_block"
    /\ call.include_signature /\ call.include_notary
    /\ call.embed_notary_in_signature
    /\ Contains(response.signature_block, KeyNotaryBlock)
    /\ Contains(response.combined_block, response.notary_block)
    /\ ~Contains(response.combined_block, KeyNotaryBlock)

(***************************************************************************)
(* remove_acknowledgment_block of app.py, the legacy remover.              *)
(***************************************************************************)
ErrorParagraphText ==
    <<"[ERROR: Could not find both acknowledgment blocks for removal. Please check your template.]">>

\* the index (0-based) the loop leaves in idx_remove / idx_keep: the last
\* paragraph whose stripped, lowered text is the header; None if there is none
LastHeaderIndex(ps, header) ==
    LET hits == { k \in DOMAIN ps : Lower(Strip(ParagraphText(ps[k]))) = header }
    IN  IF hits = {} THEN None
        ELSE (CHOOSE k \in hits : \A j \in hits : j <= k) - 1

\* remove_acknowledgment_block, were the block removed up to and including
\* the header to keep
RemoveThroughKeptHeader(d, keep_type) ==
    LET entity == Lower(keep_type) = <<"entity or trust">>
        header_remove == IF entity THEN IndividualHeader ELSE EntityHeader
        header_keep == IF entity THEN EntityHeader ELSE IndividualHeader
        idx_remove == LastHeaderIndex(d.body.paragraphs, header_remove)
        idx_keep == LastHeaderIndex(d.body.paragraphs, header_keep)
    IN  IF idx_remove = None \/ idx_keep = None \/ idx_remove = idx_keep
        THEN [d EXCEPT !.body.paragraphs = Append(@, Par(ErrorParagraphText))]
        ELSE LET end == IF idx_keep > idx_remove THEN idx_keep + 1
                        ELSE Len(d.body.paragraphs)
             IN  Detach(d, idx_remove..(end - 1))

remove_acknowledgment_block(d, keep_type) ==
    LET entity == Lower(keep_type) = <<"entity or trust">>
        header_remove == IF entity THEN IndividualHeader ELSE EntityHeader
        header_keep == IF entity THEN EntityHeader ELSE IndividualHeader
        idx_remove == LastHeaderIndex(d.body.paragraphs, header_remove)
        idx_keep == LastHeaderIndex(d.body.paragraphs, header_keep)
    IN  IF idx_remove = None \/ idx_keep = None \/ idx_remove = idx_keep
        THEN [d EXCEPT !.body.paragraphs = Append(@, Par(ErrorParagraphText))]
        ELSE LET end == IF idx_keep > idx_remove THEN idx_keep
                        ELSE Len(d.body.paragraphs)
             IN  Detach(d, idx_remove..(end - 1))

(***************************************************************************)
(* SpecLegacy: remove_acknowledgment_block called on a loaded document.    *)
(***************************************************************************)
KeepTypes == {<<"Individual">>, <<"Entity or Trust">>, <<"entity or trust">>, <<>>}

InitLegacy ==
    /\ pc = "loaded"
    /\ path = "remove_acknowledgment_block"
    /\ track_changes = FALSE
    /\ mapping_raw = <<>>
    /\ mapping = <<>>
    /\ party_type \in KeepTypes
    /\ docx_file \in { BodyDoc(ps) : ps \in RemoveBodies }
    /\ image_files = <<>>
    /\ call = NoCall
    /\ disk = TemplateFiles
    /\ template_text = NoText
    /\ uploads = {}
    /\ tokens = NoTokens
    /\ doc = docx_file
    /\ response = NoResponse
    /\ exc = NoExc
    /\ ScanIdle

RemoveAcknowledgmentBlock ==
    /\ pc = "loaded" /\ path = "remove_acknowledgment_block"
    /\ pc' = "removed"
    /\ doc' = remove_acknowledgment_block(doc, party_type)
    /\ UNCHANGED <<reqVars, mapping, response, exc, scanVars>>

NextLegacy == RemoveAcknowledgmentBlock

SpecLegacy == InitLegacy /\ [][NextLegacy]_vars

\* the uploaded template has a paragraph that is the header
HeaderFound(header) ==
    \E k \in DOMAIN docx_file.body.paragraphs :
        Lower(Strip(ParagraphText(docx_file.body.paragraphs[k]))) = header

BothHeadersFound == HeaderFound(EntityHeader) /\ HeaderFound(IndividualHeader)

\* the header of the block keep_type asks to keep
KeptHeader ==
    IF Lower(party_type) = <<"entity or trust">> THEN EntityHeader
    ELSE IndividualHeader

RECURSIVE IsSubsequence(_, _)
\* a is b with some elements left out
IsSubsequence(a, b) ==
    IF a = <<>> THEN TRUE
    ELSE IF b = <<>> THEN FALSE
    ELSE IF Head(a) = Head(b) THEN IsSubsequence(Tail(a), Tail(b))
    ELSE IsSubsequence(a, Tail(b))

C22_WitnessKept ==
    /\ pc = "removed" /\ path = "remove_acknowledgment_block"
    /\ docx_file.body.paragraphs = BaseTemplate
    /\ party_type = <<"Entity or Trust">>
    /\ Len(doc.body.paragraphs) < Len(BaseTemplate)

MaxTokens == 3

ExcelFile(t) == [token |-> t, name |-> "xlsx"]
PptxFile(t) == [token |-> t, name |-> "presentation.pptx"]

\* the response is sent and the request is over
Answer(status, kind) ==
    /\ pc' = "idle"
    /\ response' = [status |-> status, kind |-> kind]

uploadFrame == <<path, mapping_raw, mapping, track_changes, party_type, docx_file,
                 image_files, disk, template_text, doc, exc, scanVars>>

\* /preview without a file, with an empty file name or with a file that is
\* not .xlsx
PreviewReject ==
    /\ pc = "idle"
    /\ \E kind \in {"No file uploaded", "No file selected", "Invalid file type"} :
        Answer(400, kind)
    /\ call' = [handler |-> "preview", file_token |-> 0]
    /\ UNCHANGED <<uploads, tokens, uploadFrame>>

\* file_token = str(uuid.uuid4()); file.save(excel_path)
PreviewSave ==
    /\ pc = "idle"
    /\ tokens.issued < MaxTokens
    /\ pc' = "preview_saved"
    /\ call' = [handler |-> "preview", file_token |-> tokens.issued + 1]
    /\ tokens' = [tokens EXCEPT !.issued = @ + 1]
    /\ uploads' = uploads \cup {ExcelFile(tokens.issued + 1)}
    /\ UNCHANGED <<response, uploadFrame>>

\* extract_excel_content returns: the token goes to the client
PreviewReturn ==
    /\ pc = "preview_saved"
    /\ Answer(200, "content")
    /\ tokens' = [tokens EXCEPT !.known = @ \cup {call.file_token}]
    /\ UNCHANGED <<call, uploads, uploadFrame>>

\* extract_excel_content raises
PreviewFails ==
    /\ pc = "preview_saved"
    /\ Answer(500, "error")
    /\ UNCHANGED <<call, uploads, tokens, uploadFrame>>

\* /generate without customizations or file_token
GenerateReject ==
    /\ pc = "idle"
    /\ Answer(400, "No customization data or file token provided")
    /\ call' = [handler |-> "generate", file_token |-> 0]
    /\ UNCHANGED <<uploads, tokens, uploadFrame>>

\* no file of the uploads folder starts with file_token + '_'
GenerateNotFound ==
    /\ pc = "idle"
    /\ \E t \in tokens.known :
        /\ \A f \in uploads : f.token # t
        /\ call' = [handler |-> "generate", file_token |-> t]
    /\ Answer(400, "Excel file not found")
    /\ UNCHANGED <<uploads, tokens, uploadFrame>>

\* the spreadsheet of the token is found
GenerateFound(t) ==
    /\ pc = "idle"
    /\ t \in tokens.known
    /\ \E f \in uploads : f.token = t
    /\ pc' = "generating"
    /\ call' = [handler |-> "generate", file_token |-> t]
    /\ UNCHANGED <<response, uploads, tokens, uploadFrame>>

\* the finally clause: os.remove of excel_path and pptx_path if they exist
CleanUp(t) == uploads' = uploads \ {ExcelFile(t), PptxFile(t)}

\* create_powerpoint_presentation saved the presentation
GenerateCreate ==
    /\ pc = "generating"
    /\ pc' = "created"
    /\ uploads' = uploads \cup {PptxFile(call.file_token)}
    /\ UNCHANGED <<call, response, tokens, uploadFrame>>

\* extract_excel_content or create_powerpoint_presentation raises
GenerateFails ==
    /\ pc = "generating"
    /\ Answer(500, "error")
    /\ CleanUp(call.file_token)
    /\ UNCHANGED <<call, tokens, uploadFrame>>

\* send_file returns the response, or raises
GenerateSend ==
    /\ pc = "created"
    /\ \/ Answer(200, "pptx")
       \/ Answer(500, "error")
    /\ CleanUp(call.file_token)
    /\ UNCHANGED <<call, tokens, uploadFrame>>

InitUploads ==
    /\ pc = "idle"
    /\ path = "uploads"
    /\ track_changes = FALSE
    /\ mapping_raw = <<>>
    /\ mapping = <<>>
    /\ party_type = <<>>
    /\ docx_file = NoDoc
    /\ image_files = <<>>
    /\ call = NoCall
    /\ disk = TemplateFiles
    /\ template_text = NoText
    /\ uploads = {}
    /\ tokens = NoTokens
    /\ doc = NoDoc
    /\ response = NoResponse
    /\ exc = NoExc
    /\ ScanIdle

\* the steps of a request that has arrived
ServerStep ==
    \/ PreviewReturn
    \/ PreviewFails
    \/ GenerateCreate
    \/ GenerateFails
    \/ GenerateSend

NextUploads ==
    \/ PreviewReject
    \/ PreviewSave
    \/ GenerateReject
    \/ GenerateNotFound
    \/ \E t \in 1..MaxTokens : GenerateFound(t)
    \/ ServerStep

\* a request that has arrived is served to its response, and the client
\* sends /generate for every token it was handed
SpecUploads ==
    /\ InitUploads /\ [][NextUploads]_vars
    /\ WF_vars(ServerStep)
    /\ \A t \in 1..MaxTokens : SF_vars(GenerateFound(t))

(***************************************************************************)
(* C23.  Temporary upload cleanup: every file a request writes to the      *)
(* uploads folder under its token (the spreadsheet saved by /preview, the  *)
(* presentation written by /generate) is eventually deleted once a         *)
(* response has been sent, on the success path and on every error path.    *)
(***************************************************************************)
C23_UploadsCleanedUp ==
    \A t \in 1..MaxTokens : \A f \in {ExcelFile(t), PptxFile(t)} :
        (f \in uploads) ~> (f \notin uploads)

(***************************************************************************)
(* parse_kv_table_file and the /parse_kv_table handler of app.py.  The     *)
(* uploaded table is [kind, rows]: kind from the file name, rows a         *)
(* sequence of rows, a row a sequence of cells, a cell a text.  An empty   *)
(* cell of a spreadsheet is read by pandas as NaN.                         *)
(***************************************************************************)
MaxTableRows == 2

DefaultDocumentName == <<"lease_population_filled">>
NaN == <<"nan">>

\* the rows as csv.reader yields them: the mapping rows of the CSV branch
RECURSIVE CsvMapping(_)
CsvMapping(rows) ==
    IF rows = <<>> THEN <<>>
    ELSE (IF Len(Head(rows)) >= 2
          THEN <<Item(Strip(Head(rows)[1]), Strip(Head(rows)[2]))>>
          ELSE <<>>) \o CsvMapping(Tail(rows))

\* the width of the DataFrame read_excel builds, and its cell (NaN when the
\* row is shorter or the cell empty); str() of it
FrameWidth(rows) ==
    IF rows = <<>> THEN 0
    ELSE LET w == { Len(rows[i]) : i \in DOMAIN rows }
         IN  CHOOSE n \in w : \A m \in w : m <= n
FrameIsNull(row, c) == c > Len(row) \/ row[c] = <<>>
FrameStr(row, c) == IF FrameIsNull(row, c) THEN NaN ELSE row[c]

RECURSIVE XlsxMapping(_, _)
XlsxMapping(rows, width) ==
    IF rows = <<>> THEN <<>>
    ELSE (IF width >= 2
          THEN <<Item(Strip(FrameStr(Head(rows), 1)), Strip(FrameStr(Head(rows), 2)))>>
          ELSE <<>>) \o XlsxMapping(Tail(rows), width)

\* mapping[0] looks like a header
LooksLikeHeader(m) ==
    /\ m # <<>>
    /\ Lower(m[1].key) \in {<<"key">>, <<"placeholder">>}
    /\ Lower(m[1].value) \in {<<"value">>, <<"replacement">>}

\* the file name ends with neither .csv nor .xlsx / .xls: ValueError
ParseRaises(file) == file.kind \notin {"csv", "xlsx"}

parse_kv_table_file(file) ==
    LET rows == file.rows
        csv == file.kind = "csv"
        empty == IF csv THEN rows = <<>> ELSE FrameWidth(rows) = 0
        mapping0 == IF empty THEN <<>>
                    ELSE IF csv THEN CsvMapping(Tail(rows))
                    ELSE XlsxMapping(Tail(rows), FrameWidth(rows))
        document_name ==
            IF empty THEN None
            ELSE IF csv
            THEN IF rows[1] # <<>> /\ rows[1][1] # <<>> THEN Strip(rows[1][1])
                 ELSE DefaultDocumentName
            ELSE IF ~FrameIsNull(rows[1], 1) THEN Strip(rows[1][1])
                 ELSE DefaultDocumentName
    IN  [mapping |-> IF LooksLikeHeader(mapping0) THEN Tail(mapping0) ELSE mapping0,
         document_name |-> document_name]

\* any(not k for k in keys) or len(set(keys)) != len(keys)
KeysInvalid(m) ==
    \/ \E i \in DOMAIN m : m[i].key = <<>>
    \/ Cardinality({ m[i].key : i \in DOMAIN m }) # Len(m)

(***************************************************************************)
(* SpecParse: one /parse_kv_table request.                                 *)
(***************************************************************************)
TableCells == {<<>>, <<"N">>, <<" ", "N", " ">>, <<"S">>, <<"key">>, <<"value">>}

TableRows == {<<>>} \cup { <<c>> : c \in TableCells } \cup
             { <<c, d>> : <<c, d>> \in TableCells \X TableCells }

NameRows == {<<>>, << <<>> >>, << <<" ", "G">> >>, << <<"G">>, <<"N">> >>}

RECURSIVE RowSeqs(_)
RowSeqs(n) ==
    IF n = 0 THEN {<<>>}
    ELSE RowSeqs(n - 1) \cup
         { Append(rs, r) : <<rs, r>> \in RowSeqs(n - 1) \X TableRows }

TableFiles ==
    { [kind |-> k, rows |-> <<nr>> \o rs] :
        <<k, nr, rs>> \in {"csv", "xlsx"} \X NameRows \X RowSeqs(MaxTableRows) }
    \cup { [kind |-> k, rows |-> <<>>] : k \in {"csv", "xlsx", "txt"} }

InitParse ==
    /\ pc = "received"
    /\ path = "parse_kv_table"
    /\ call \in TableFiles
    /\ track_changes = FALSE
    /\ mapping_raw = <<>>
    /\ mapping = <<>>
    /\ party_type = <<>>
    /\ docx_file = NoDoc
    /\ image_files = <<>>
    /\ disk = TemplateFiles
    /\ template_text = NoText
    /\ uploads = {}
    /\ tokens = NoTokens
    /\ doc = NoDoc
    /\ response = NoResponse
    /\ exc = NoExc
    /\ ScanIdle

\* the except branch: 400 with str(e)
ParseKvTableRaises ==
    /\ pc = "received" /\ path = "parse_kv_table"
    /\ ParseRaises(call)
    /\ pc' = "done"
    /\ response' = [status |-> 400, kind |-> "Unsupported file type"]
    /\ UNCHANGED <<reqVars, mapping, doc, exc, scanVars>>

ParseKvTableRejects ==
    /\ pc = "received" /\ path = "parse_kv_table"
    /\ ~ParseRaises(call)
    /\ KeysInvalid(parse_kv_table_file(call).mapping)
    /\ pc' = "done"
    /\ response' = [status |-> 400, kind |-> "Keys must be non-empty and unique"]
    /\ mapping' = parse_kv_table_file(call).mapping
    /\ UNCHANGED <<reqVars, doc, exc, scanVars>>

ParseKvTableReturns ==
    /\ pc = "received" /\ path = "parse_kv_table"
    /\ ~ParseRaises(call)
    /\ ~KeysInvalid(parse_kv_table_file(call).mapping)
    /\ pc' = "done"
    /\ response' = [status |-> 200, kind |-> "mapping",
                    mapping |-> parse_kv_table_file(call).mapping,
                    document_name |-> parse_kv_table_file(call).document_name]
    /\ mapping' = parse_kv_table_file(call).mapping
    /\ UNCHANGED <<reqVars, doc, exc, scanVars>>

NextParse == ParseKvTableRaises \/ ParseKvTableRejects \/ ParseKvTableReturns

SpecParse == InitParse /\ [][NextParse]_vars

\* a cell that holds something
Populated(c) == Strip(c) # <<>>

RECURSIVE ExpectedPairs(_)
\* one pair per row with at least two populated cells, in input order
ExpectedPairs(rows) ==
    IF rows = <<>> THEN <<>>
    ELSE (IF Cardinality({ c \in DOMAIN Head(rows) : Populated(Head(rows)[c]) }) >= 2
          THEN <<Item(Strip(Head(rows)[1]), Strip(Head(rows)[2]))>>
          ELSE <<>>) \o ExpectedPairs(Tail(rows))

(***************************************************************************)
(* C24.  Mapping parse: parse_kv_table_file treats the first row as the    *)
(* document name and, from the rows after it, drops every row with fewer   *)
(* than two populated cells and emits one {key, value} pair per remaining  *)
(* row, key and value stripped, in input order; /parse_kv_table then       *)
(* rejects the result if a key is empty or two keys are equal, and returns *)
(* it otherwise.                                                           *)
(***************************************************************************)
C24_MappingParse ==
    (pc = "done" /\ path = "parse_kv_table" /\ call.kind \in {"csv", "xlsx"}
        /\ call.rows # <<>>) =>
        /\ mapping = ExpectedPairs(Tail(call.rows))
        /\ response.status = IF KeysInvalid(mapping) THEN 400 ELSE 200
        /\ response.status = 200 => response.mapping = mapping

(***************************************************************************)
(* build_exhibit_string of block_replacer.py.  The argument is [kind,      *)
(* parcels]: kind "list" for a list, whose entries are parcels; an entry   *)
(* is a record with dict = TRUE for a dict, which holds parcelNumber and   *)
(* isPortion or lacks them, and [dict |-> FALSE] for anything else.        *)
(***************************************************************************)
MaxParcels == 3
MaxParcelNumber == 2

RECURSIVE JoinLines(_)
\* "\n".join(parts)
JoinLines(parts) ==
    IF parts = <<>> THEN <<>>
    ELSE IF Len(parts) = 1 THEN parts[1]
    ELSE parts[1] \o <<"\n">> \o JoinLines(Tail(parts))

\* parcel.get("isPortion", False)
IsPortion(parcel) == "isPortion" \in DOMAIN parcel /\ parcel.isPortion

\* the two parts a valid parcel appends: its description and the spacing
ParcelParts(parcel) ==
    LET n == Str(parcel.parcelNumber)
    IN  << IF IsPortion(parcel)
           THEN <<"Portion ", n,
                  ":",
                  "\n\nThis portion of the property is described as follows: [Legal description for portion ",
                  n, "]">>
           ELSE <<"Parcel ", n,
                  ":",
                  "\n\nA parcel of the property described as follows: [Legal description for parcel ",
                  n, "]">>,
           <<>> >>

RECURSIVE ExhibitPartsNoSkip(_, _)
\* the loop over the parcels, were an entry without parcelNumber described
\* with its position i
ExhibitPartsNoSkip(parcels, i) ==
    IF parcels = <<>> THEN <<>>
    ELSE (IF ~Head(parcels).dict THEN <<>>
          ELSE IF "parcelNumber" \notin DOMAIN Head(parcels)
          THEN ParcelParts([dict |-> TRUE, parcelNumber |-> i])
          ELSE ParcelParts(Head(parcels)))
         \o ExhibitPartsNoSkip(Tail(parcels), i + 1)

RECURSIVE ExhibitParts(_, _)
\* the loop over the parcels: an entry that is no dict or has no
\* parcelNumber is skipped
ExhibitParts(parcels, i) ==
    IF parcels = <<>> THEN <<>>
    ELSE (IF ~Head(parcels).dict \/ "parcelNumber" \notin DOMAIN Head(parcels)
          THEN <<>>
          ELSE ParcelParts(Head(parcels)))
         \o ExhibitParts(Tail(parcels), i + 1)

\* len(parcels) raises TypeError for None; anything but a non-empty list
\* raises ValueError
BuildExhibitRaises(arg) == arg.kind # "list" \/ arg.parcels = <<>>

build_exhibit_string(arg) ==
    JoinLines(<< <<"EXHIBIT A">>, <<>>, <<"General Description of Property">>,
                 <<>>, <<"[Image]">>, <<>> >>
              \o ExhibitParts(arg.parcels, 1))

(***************************************************************************)
(* SpecExhibit: build_exhibit_string called directly.                      *)
(***************************************************************************)
ParcelEntries ==
    [dict : {TRUE}, parcelNumber : 1..MaxParcelNumber, isPortion : BOOLEAN]
    \cup [dict : {TRUE}, parcelNumber : 1..MaxParcelNumber]
    \cup [dict : {TRUE}, isPortion : BOOLEAN]
    \cup {[dict |-> TRUE], [dict |-> FALSE]}

RECURSIVE ParcelLists(_)
ParcelLists(n) ==
    IF n = 0 THEN {<<>>}
    ELSE ParcelLists(n - 1) \cup
         { Append(ps, p) : <<ps, p>> \in ParcelLists(n - 1) \X ParcelEntries }

ExhibitArguments ==
    { [kind |-> "list", parcels |-> ps] : ps \in ParcelLists(MaxParcels) }
    \cup { [kind |-> k, parcels |-> <<>>] : k \in {"None", "dict", "str"} }
    \cup { [kind |-> "dict", parcels |-> <<[dict |-> TRUE, parcelNumber |-> 1]>>] }

InitExhibit ==
    /\ pc = "called"
    /\ path = "build_exhibit_string"
    /\ call \in ExhibitArguments
    /\ track_changes = FALSE
    /\ mapping_raw = <<>>
    /\ mapping = <<>>
    /\ party_type = <<>>
    /\ docx_file = NoDoc
    /\ image_files = <<>>
    /\ disk = TemplateFiles
    /\ template_text = NoText
    /\ uploads = {}
    /\ tokens = NoTokens
    /\ doc = NoDoc
    /\ response = NoResponse
    /\ exc = NoExc
    /\ ScanIdle

BuildExhibitString ==
    /\ pc = "called" /\ path = "build_exhibit_string"
    /\ ~BuildExhibitRaises(call)
    /\ Returned(build_exhibit_string(call))

BuildExhibitStringRaises ==
    /\ pc = "called" /\ path = "build_exhibit_string"
    /\ BuildExhibitRaises(call)
    /\ Raise([type |-> IF call.kind = "None" THEN "TypeError" ELSE "ValueError",
              marker |-> <<>>, label |-> "Parcels must be a non-empty list"])

NextExhibit == BuildExhibitString \/ BuildExhibitStringRaises

SpecExhibit == InitExhibit /\ [][NextExhibit]_vars

RECURSIVE ExhibitLabels(_)
\* the "Portion <n>" / "Parcel <n>" labels of the descriptions of a string,
\* in the order they appear
ExhibitLabels(out) ==
    IF Len(out) < 3 THEN <<>>
    ELSE (IF Head(out) \in {"Portion ", "Parcel "}
          THEN << <<out[1], out[2], out[3]>> >> ELSE <<>>)
         \o ExhibitLabels(Tail(out))

RECURSIVE ExpectedLabels(_)
\* one label per entry that carries a parcelNumber, in input order
ExpectedLabels(parcels) ==
    IF parcels = <<>> THEN <<>>
    ELSE (IF Head(parcels).dict /\ "parcelNumber" \in DOMAIN Head(parcels)
          THEN << << IF "isPortion" \in DOMAIN Head(parcels)
                        /\ Head(parcels).isPortion = TRUE
                     THEN "Portion " ELSE "Parcel ",
                     Str(Head(parcels).parcelNumber), ":" >> >>
          ELSE <<>>)
         \o ExpectedLabels(Tail(parcels))

(***************************************************************************)
(* C25.  Exhibit string generation: for a non-empty list of parcels        *)
(* build_exhibit_string returns a string that starts with the EXHIBIT A    *)
(* header and holds exactly one description per parcel that carries a      *)
(* parcelNumber, in input order, labelled "Portion <n>:" when isPortion is *)
(* true and "Parcel <n>:" otherwise; an entry without parcelNumber is      *)
(* skipped; an empty or non-list argument raises an error.                 *)
(***************************************************************************)
C25_ExhibitString ==
    /\ (pc = "returned" /\ path = "build_exhibit_string") =>
        /\ call.kind = "list" /\ call.parcels # <<>>
        /\ Head(response) = "EXHIBIT A"
        /\ ExhibitLabels(response) = ExpectedLabels(call.parcels)
    /\ (pc = "raised" /\ path = "build_exhibit_string") =>
        (call.kind # "list" \/ call.parcels = <<>>)

\* a parcel, an entry without parcelNumber and a portion gave two descriptions
C25_Witness ==
    /\ pc = "returned" /\ path = "build_exhibit_string"
    /\ Len(call.parcels) = 3
    /\ "parcelNumber" \notin DOMAIN call.parcels[2]
    /\ ExhibitLabels(response) = << <<"Parcel ", "1", ":">>, <<"Portion ", "2", ":">> >>

(***************************************************************************)
(* C26.  Track-changes substitution: in track-changes mode, in every run   *)
(* of a body paragraph, every mapped placeholder with a non-empty value    *)
(* that occurs in the run's text is replaced by its value, and the run     *)
(* ends up highlighted if and only if at least one placeholder was         *)
(* replaced in it; also for a run that holds two or more different mapped  *)
(* placeholders.                                                           *)
(***************************************************************************)
C26_TrackChangesSubstitution ==
    (pc = "substituted" /\ track_changes /\ path \in {"app", "core"}) =>
        \A i \in DOMAIN docx_file.body.paragraphs :
            \A j \in DOMAIN docx_file.body.paragraphs[i] :
                LET old == docx_file.body.paragraphs[i][j]
                    new == doc.body.paragraphs[i][j]
                    occurring == { k \in NonBlank(mapping) :
                                    Contains(old.text, mapping[k].key) }
                IN  /\ new.text \in { ExactReplaceAll(old.text, o) :
                                        o \in Orderings(mapping) }
                    /\ new.highlight <=> (occurring # {})

\* the paragraph indices (0-based) that lie in some resolved range
InResolvedRange ==
    UNION { to_remove[r][1]..to_remove[r][2] : r \in DOMAIN to_remove }

(***************************************************************************)
(* C27.  Range removal is exact: once all targeted marker pairs are        *)
(* resolved, remove_acknowledgment_blocks_enforced completes without error *)
(* and deletes exactly the paragraphs whose original index lies in some    *)
(* resolved range [start, end] inclusive, every other paragraph staying in *)
(* its original relative order; also when the ranges of the two marker     *)
(* pairs overlap or one lies inside the other.                             *)
(***************************************************************************)
C27_RangeRemovalExact ==
    /\ pc = "raised" => exc.type \in {"START", "END"}
    /\ pc = "removed" =>
        doc.body.paragraphs = Keep(docx_file.body.paragraphs, InResolvedRange, 1)

\* the uploaded template holds the individual and the entity sections, each
\* with its start and end marker in place
WellFormedTemplate ==
    docx_file \in {BodyDoc(BaseTemplate), BodyDoc(<<Par(KeyN)>> \o BaseTemplate)}

(***************************************************************************)
(* C28.  Substitution does not break section removal: for a template in    *)
(* which both the individual and the entity sections are present and       *)
(* well-formed, a /lease_population_replace request with party type        *)
(* Individual resolves all its markers and completes (200) for every valid *)
(* mapping, a mapping that gives a non-empty value to a placeholder that   *)
(* is also a section start marker ([Trust/Entity Name]) included.          *)
(***************************************************************************)
C28_SubstitutionKeepsMarkers ==
    (/\ path = "app" /\ pc = "done"
     /\ party_type = <<"Individual">>
     /\ WellFormedTemplate
     /\ ~InvalidKeys(mapping_raw)) =>
        response.status = 200

(***************************************************************************)
(* SpecAuto: _auto_generate_signature_blocks of core.py called on a dict;  *)
(* call.mapping keeps the dict as it was passed in.                        *)
(***************************************************************************)
MaxAutoEntries == 3

KeyOwnerType == <<"[", "Owner Type", "]">>

AutoItems ==
    { Item(k, v) : <<k, v>> \in
        ({KeySignatureBlock, KeySignatureBlockWithNotrary} \X {<<" ">>, <<"x">>})
        \cup ({KeyN} \X {<<"x">>})
        \cup ({KeyOwnerType} \X {<<"Individual">>, <<"couple">>,
                                 <<"sole owner, married couple">>, <<"LLC">>})
        \cup ({KeyNumberOfSignatures} \X {<<"0">>, <<"2">>, <<"x">>}) }

RECURSIVE AutoMappings(_)
AutoMappings(n) ==
    IF n = 0 THEN {<<>>}
    ELSE AutoMappings(n - 1) \cup
         { Append(m, it) : <<m, it>> \in
            { x \in AutoMappings(n - 1) \X AutoItems :
                \A i \in DOMAIN x[1] : x[1][i].key # x[2].key } }

InitAuto ==
    /\ pc = "parsed"
    /\ path = "_auto_generate_signature_blocks"
    /\ mapping \in AutoMappings(MaxAutoEntries)
    /\ call = [mapping |-> mapping]
    /\ track_changes = FALSE
    /\ mapping_raw = <<>>
    /\ party_type = <<>>
    /\ docx_file = NoDoc
    /\ image_files = <<>>
    /\ disk \in {TemplateFiles, {}}
    /\ template_text = NoText
    /\ uploads = {}
    /\ tokens = NoTokens
    /\ doc = NoDoc
    /\ response = NoResponse
    /\ exc = NoExc
    /\ ScanIdle

AutoGenerateSignatureBlocks ==
    /\ pc = "parsed" /\ path = "_auto_generate_signature_blocks"
    /\ pc' = "generated"
    /\ mapping' = _auto_generate_signature_blocks(mapping)
    /\ UNCHANGED <<reqVars, doc, response, exc, scanVars>>

NextAuto == AutoGenerateSignatureBlocks

SpecAuto == InitAuto /\ [][NextAuto]_vars

SignatureKeys == {KeySignatureBlock, KeySignatureBlockWithNotrary}

(***************************************************************************)
(* C29.  Auto-generation only fills gaps: _auto_generate_signature_blocks  *)
(* never changes a [Signature Block] or [Signature Block With Notrary]     *)
(* value supplied non-blank, sets each of the two keys that is absent or   *)
(* blank, and leaves every other key and value of the mapping unchanged;   *)
(* when both are supplied non-blank the mapping is returned unchanged.     *)
(***************************************************************************)
C29_AutoGenerationFillsGaps ==
    (pc = "generated" /\ path = "_auto_generate_signature_blocks") =>
        LET old == call.mapping
            both == \A k \in SignatureKeys : Provided(old, k)
        IN  /\ \A k \in SignatureKeys :
                Provided(old, k) => HasKey(mapping, k) /\ Get(mapping, k) = Get(old, k)
            /\ ~both => \A k \in SignatureKeys : HasKey(mapping, k)
            /\ \A k \in SignatureKeys :
                (~both /\ ~Provided(old, k)) =>
                    Get(mapping, k) =
                        generator(_detect_owner_type(old),
                                  k = KeySignatureBlockWithNotrary, <<>>,
                                  NumSignatures(old))
            /\ \A i \in DOMAIN old :
                old[i].key \notin SignatureKeys => mapping[i] = old[i]
            /\ { mapping[i].key : i \in DOMAIN mapping } \subseteq
                    { old[i].key : i \in DOMAIN old } \cup SignatureKeys
            /\ both => mapping = old

\* a supplied [Signature Block] was kept and the missing block with notary
\* was generated next to another key
C29_Witness ==
    /\ pc = "generated" /\ path = "_auto_generate_signature_blocks"
    /\ Provided(call.mapping, KeySignatureBlock)
    /\ ~HasKey(call.mapping, KeySignatureBlockWithNotrary)
    /\ HasKey(call.mapping, KeyN)
    /\ Provided(mapping, KeySignatureBlockWithNotrary)

\* the owner type the mapping passed in declares, lowered and stripped
DeclaredOwnerType == Lower(Strip(Get(call.mapping, KeyOwnerType)))

\* the declarations of a person, and of a couple, that _detect_owner_type maps
IndividualDeclarations == {<<"individual">>, <<"person">>}
CoupleDeclarations ==
    {<<"married couple">>, <<"couple">>, <<"sole owner married couple">>,
     <<"sole owner, married couple">>}

\* the signature count is the one the declared type uses: two for a couple,
\* one for an individual
CountOfDeclaredType ==
    NumSignatures(call.mapping) =
        IF DeclaredOwnerType \in CoupleDeclarations THEN 2 ELSE 1

(***************************************************************************)
(* C30.  Detected owner types select matching templates: the owner type    *)
(* _detect_owner_type returns for a person-type declaration (individual /  *)
(* person, married couple / couple, sole owner married couple) is resolved *)
(* by getSigBlock, for the signature count that type uses, to a template   *)
(* of the individual family (I1.txt or SI1.txt) and never to the default   *)
(* entity template E1.txt: the signature block generated for it holds the  *)
(* former and not the latter.                                              *)
(***************************************************************************)
C30_DetectedTypesMatchTemplates ==
    (/\ pc = "generated" /\ path = "_auto_generate_signature_blocks"
     /\ disk = TemplateFiles
     /\ HasKey(call.mapping, KeyOwnerType)
     /\ DeclaredOwnerType \in IndividualDeclarations \cup CoupleDeclarations
     /\ CountOfDeclaredType
     /\ ~Provided(call.mapping, KeySignatureBlock)) =>
        /\ SigBlockFiles(_detect_owner_type(call.mapping),
                         NumSignatures(call.mapping))[1] \in {"I1.txt", "SI1.txt"}
        /\ ~Contains(Get(mapping, KeySignatureBlock), <<"E1.txt">>)
        /\ \/ Contains(Get(mapping, KeySignatureBlock), <<"I1.txt">>)
           \/ Contains(Get(mapping, KeySignatureBlock), <<"SI1.txt">>)

====
